---- MODULE Spec2Model ----
(***************************************************************************)
(* Model of the dsmpartsfinder site clients: the Kleinanzeigen scraper,    *)
(* the SchadeAutos form-search client and the eBay Browse API client.      *)
(* One client instance is constructed per behaviour and FetchParts is      *)
(* called on it, one call after the other.  Go strings are modelled as     *)
(* sequences of one-character strings so that prefix tests, trimming,      *)
(* formatting and parsing are computed the way the code computes them.     *)
(***************************************************************************)
EXTENDS Integers, Sequences, FiniteSets, TLC

(***************************************************************************)
(* Bounds of the model.                                                    *)
(***************************************************************************)
\* page requests one FetchParts call may issue in the model
MaxRequests == 4
\* articles / items on a short page of a paginating source
SmallPage == 2
\* entries of the stockParts mapping of a form-search response
MaxStock == 2
\* page requests each of two concurrent calls may issue in the model
MaxRequestsEach == 2

(***************************************************************************)
(* Strings.                                                                *)
(***************************************************************************)
Digits == <<"0", "1", "2", "3", "4", "5", "6", "7", "8", "9">>

IsDigit(c) == \E d \in 1..10 : Digits[d] = c

DigitVal(c) == (CHOOSE d \in 1..10 : Digits[d] = c) - 1

\* isDigit(s, i) of package time, with i counted from 1
IsDigitAt(s, i) == i >= 1 /\ i <= Len(s) /\ IsDigit(s[i])

HasPrefix(s, p) == Len(s) >= Len(p) /\ SubSeq(s, 1, Len(p)) = p

TrimPrefix(s, p) == IF HasPrefix(s, p) THEN SubSeq(s, Len(p) + 1, Len(s)) ELSE s

Contains(s, c) == \E i \in 1..Len(s) : s[i] = c

IsSpace(c) == c \in {" ", "\t", "\n", "\r"}

\* F(v), with v evaluated once however often F reads its argument
Let(v, F(_)) == CHOOSE r \in {F(x) : x \in {v}} : TRUE

Min(S) == CHOOSE i \in S : \A j \in S : i <= j

Max(S) == CHOOSE i \in S : \A j \in S : i >= j

\* strings.TrimSpace
TrimSpace(s) ==
    LET cut(keep) == IF keep = {} THEN <<>> ELSE SubSeq(s, Min(keep), Max(keep))
    IN  Let({i \in 1..Len(s) : ~IsSpace(s[i])}, cut)

\* the sequence of the values f(1), ..., f(n)
Map(n, f(_)) == [i \in 1..n |-> f(i)] \o <<>>

\* the image requests of a loop over entries that each made at most one
SentGets(results) ==
    LET sent(r) == r.gets # <<>>
        urls(made) == LET url(j) == made[j].gets[1] IN Map(Len(made), url)
    IN  Let(SelectSeq(results, sent), urls)

Pow10 == <<1, 10, 100, 1000, 10000, 100000, 1000000>>

\* the decimal digits of n >= 0
DecDigits(n) ==
    LET digits(k) ==
            LET digit(i) == Digits[((n \div Pow10[k - i + 1]) % 10) + 1] IN Map(k, digit)
    IN  Let(Min({k \in 1..(Len(Pow10) - 1) : n < Pow10[k + 1]}), digits)

\* fmt.Sprintf("%d", n)
Sprintd(n) == IF n < 0 THEN <<"-">> \o DecDigits(0 - n) ELSE DecDigits(n)

(***************************************************************************)
(* encoding/base64, StdEncoding.EncodeToString, on sequences of bytes.     *)
(***************************************************************************)
Base64Alphabet == <<"A", "B", "C", "D", "E", "F", "G", "H", "I", "J", "K", "L", "M", "N", "O", "P", "Q", "R", "S", "T", "U", "V", "W", "X", "Y", "Z", "a", "b", "c", "d", "e", "f", "g", "h", "i", "j", "k", "l", "m", "n", "o", "p", "q", "r", "s", "t", "u", "v", "w", "x", "y", "z", "0", "1", "2", "3", "4", "5", "6", "7", "8", "9", "+", "/">>

B64(i) == Base64Alphabet[i + 1]

\* every three bytes give four characters; a last group of one or two bytes
\* is padded with "="
EncodeToString(b) ==
    LET n == Len(b)
        byte(i) == IF i <= n THEN b[i] ELSE 0
        char(k) ==
            LET g == (k - 1) \div 4
                j == (k - 1) % 4
                b1 == byte(3 * g + 1)
                b2 == byte(3 * g + 2)
                b3 == byte(3 * g + 3)
            IN  IF j = 0 THEN B64(b1 \div 4)
                ELSE IF j = 1 THEN B64((b1 % 4) * 16 + b2 \div 16)
                ELSE IF j = 2 THEN
                    (IF 3 * g + 2 > n THEN "=" ELSE B64((b2 % 16) * 4 + b3 \div 64))
                ELSE (IF 3 * g + 3 > n THEN "=" ELSE B64(b3 % 64))
    IN  Map(4 * ((n + 2) \div 3), char)

(***************************************************************************)
(* package time: Parse for the layouts the clients use.  A layout is the   *)
(* sequence of chunks nextStdChunk cuts it into; a chunk is a standard     *)
(* element ("2006", "01", "1", "02", "2", "15", "04", "05") or a literal   *)
(* character.                                                              *)
(***************************************************************************)
StdChunks == {"2006", "01", "1", "02", "2", "15", "04", "05"}

\* the zero time.Time; loc is the location of the time (time.Parse of a value
\* without a zone gives UTC)
ZeroTime ==
    [year |-> 1, month |-> 1, day |-> 1, hour |-> 0, min |-> 0, sec |-> 0, loc |-> "UTC"]

IsLeap(y) == y % 4 = 0 /\ (y % 100 # 0 \/ y % 400 = 0)

DaysIn(m, y) ==
    IF m = 2 THEN (IF IsLeap(y) THEN 29 ELSE 28)
    ELSE IF m \in {4, 6, 9, 11} THEN 30 ELSE 31

\* getnum(s, fixed): one or two leading digits
GetNum(s, fixed) ==
    IF ~IsDigitAt(s, 1) THEN [ok |-> FALSE, n |-> 0, rest |-> s]
    ELSE IF ~IsDigitAt(s, 2) THEN
        IF fixed THEN [ok |-> FALSE, n |-> 0, rest |-> s]
        ELSE [ok |-> TRUE, n |-> DigitVal(s[1]), rest |-> Tail(s)]
    ELSE [ok |-> TRUE, n |-> DigitVal(s[1]) * 10 + DigitVal(s[2]),
          rest |-> SubSeq(s, 3, Len(s))]

\* s without its leading digits
SkipDigits(s) ==
    LET rest(stops) == IF stops = {} THEN <<>> ELSE SubSeq(s, Min(stops), Len(s))
    IN  Let({i \in 1..Len(s) : ~IsDigit(s[i])}, rest)

\* a fractional second in the value that the layout does not name is skipped
SkipFraction(s) ==
    IF Len(s) >= 2 /\ s[1] \in {".", ","} /\ IsDigitAt(s, 2) THEN SkipDigits(Tail(s)) ELSE s

ParseFail == [ok |-> FALSE, t |-> ZeroTime]

RECURSIVE ParseChunks(_, _, _)

\* one chunk of the layout against the head of the value
ParseChunk(layout, value, t) ==
    IF layout = <<>> THEN
        IF value # <<>> THEN ParseFail
        ELSE IF t.day < 1 \/ t.day > DaysIn(t.month, t.year) THEN ParseFail
        ELSE [ok |-> TRUE, t |-> t]
    ELSE
        LET chunk == Head(layout)
            rest  == Tail(layout)
        IN
        IF chunk = "2006" THEN
            IF Len(value) >= 4 /\ \A i \in 1..4 : IsDigit(value[i]) THEN
                ParseChunks(rest, SubSeq(value, 5, Len(value)),
                    [t EXCEPT !.year = DigitVal(value[1]) * 1000 + DigitVal(value[2]) * 100
                                        + DigitVal(value[3]) * 10 + DigitVal(value[4])])
            ELSE ParseFail
        ELSE IF chunk \in {"01", "1"} THEN
            LET month(g) ==
                    IF g.ok /\ g.n >= 1 /\ g.n <= 12
                    THEN ParseChunks(rest, g.rest, [t EXCEPT !.month = g.n]) ELSE ParseFail
            IN  Let(GetNum(value, chunk = "01"), month)
        ELSE IF chunk \in {"02", "2"} THEN
            LET day(g) ==
                    IF g.ok THEN ParseChunks(rest, g.rest, [t EXCEPT !.day = g.n])
                    ELSE ParseFail
            IN  Let(GetNum(value, chunk = "02"), day)
        ELSE IF chunk = "15" THEN
            LET hour(g) ==
                    IF g.ok /\ g.n < 24
                    THEN ParseChunks(rest, g.rest, [t EXCEPT !.hour = g.n]) ELSE ParseFail
            IN  Let(GetNum(value, FALSE), hour)
        ELSE IF chunk = "04" THEN
            LET minute(g) ==
                    IF g.ok /\ g.n < 60
                    THEN ParseChunks(rest, g.rest, [t EXCEPT !.min = g.n]) ELSE ParseFail
            IN  Let(GetNum(value, TRUE), minute)
        ELSE IF chunk = "05" THEN
            LET second(g) ==
                    IF g.ok /\ g.n < 60
                    THEN ParseChunks(rest, SkipFraction(g.rest), [t EXCEPT !.sec = g.n])
                    ELSE ParseFail
            IN  Let(GetNum(value, TRUE), second)
        ELSE
            IF value # <<>> /\ Head(value) = chunk
            THEN ParseChunks(rest, Tail(value), t) ELSE ParseFail

\* the chunks of the layout against the value, from left to right
ParseChunks(layout, value, t) ==
    CHOOSE r \in {ParseChunk(l, v, u) : l \in {layout}, v \in {value}, u \in {t}} : TRUE

\* time.Parse(layout, value): fields the layout does not name keep their zero value
TimeParse(layout, value) ==
    ParseChunks(layout, value, [ZeroTime EXCEPT !.year = 0])

(***************************************************************************)
(* Values shared by the clients.                                           *)
(***************************************************************************)
\* a nil error
NoErr == "nil"

\* what FetchParts hands to its caller: "return nil, err" when the call
\* fails, "return parts, nil" otherwise
NoResult == [nilList |-> TRUE, list |-> <<>>, err |-> NoErr]

\* FetchPartsReturn as it would be if a failing call handed the caller the
\* list accumulated so far together with the error
FetchPartsReturnPartial(next, parts, err) ==
    IF next = "fail" THEN [nilList |-> FALSE, list |-> parts, err |-> err]
    ELSE [nilList |-> FALSE, list |-> parts, err |-> NoErr]

FetchPartsReturn(next, parts, err) ==
    IF next = "fail" THEN [nilList |-> TRUE, list |-> <<>>, err |-> err]
    ELSE [nilList |-> FALSE, list |-> parts, err |-> NoErr]

\* AppendParts as it would be with the new page put before the earlier ones
PrependParts(allParts, parts) == parts \o allParts

\* append(allParts, parts...)
AppendParts(allParts, parts) == allParts \o parts

\* siteclients.Part with every field at its zero value
ZeroPart ==
    [ID |-> <<>>, Description |-> <<>>, TypeName |-> <<>>, Name |-> <<>>,
     ImageBase64 |-> <<>>, URL |-> <<>>, SiteID |-> 0, Price |-> <<>>,
     CreationDate |-> ZeroTime]

HttpsPrefix == <<"h", "t", "t", "p", "s", ":">>

\* the prefix the form-search and the eBay client put before a price: the
\* three characters U+00E2, U+201A, U+00AC of the source literal and a space
\* (a character outside ASCII is written by its code point)
PricePrefix == <<"U+00E2", "U+201A", "U+00AC", " ">>

(***************************************************************************)
(* The image hosts.  What a GET of an image URL answers is fixed by the    *)
(* URL: a URL without scheme cannot be requested, a path ending in "y" is  *)
(* answered 404, one ending in "z" fails on the connection, every other    *)
(* one is answered 200 with a three-byte body.                             *)
(***************************************************************************)
ImageServer(url) ==
    IF ~HasPrefix(url, HttpsPrefix \o <<"/", "/">>) THEN [kind |-> "connfail", status |-> 0, body |-> <<>>]
    ELSE IF url[Len(url)] = "z" THEN [kind |-> "connfail", status |-> 0, body |-> <<>>]
    ELSE IF url[Len(url)] = "y" THEN [kind |-> "status", status |-> 404, body |-> <<>>]
    ELSE [kind |-> "ok", status |-> 200, body |-> <<255, 216, Len(url)>>]

\* the GET and the encoding shared by the three fetchImageAsBase64 methods:
\* a cancelled context fails the request before it is sent
DoImageGet(ctxDone, url) ==
    IF ctxDone THEN [err |-> "failed to fetch image", data |-> <<>>, gets |-> <<>>]
    ELSE LET resp == ImageServer(url) IN
        IF resp.kind = "connfail" THEN
            [err |-> "failed to fetch image", data |-> <<>>, gets |-> <<url>>]
        ELSE IF resp.status # 200 THEN
            [err |-> "unexpected status code for image", data |-> <<>>, gets |-> <<url>>]
        ELSE [err |-> NoErr, data |-> EncodeToString(resp.body), gets |-> <<url>>]

(***************************************************************************)
(* KleinanzeigenClient.                                                    *)
(***************************************************************************)
KleinanzeigenBaseURL == <<"h", "t", "t", "p", "s", ":", "/", "/", "w", "w", "w", ".", "k", "l", "e", "i", "n", "a", "n", "z", "e", "i", "g", "e", "n", ".", "d", "e">>

maxPages == 100

itemsPerPage == 25

NewKleinanzeigenClient(id) ==
    [kind |-> "kleinanzeigen", baseURL |-> KleinanzeigenBaseURL, siteID |-> id]

\* GetSiteID is the same method on the three clients
GetSiteID(c) == c.siteID

KleinanzeigenFetchImageAsBase64(c, ctxDone, imageURL) ==
    DoImageGet(ctxDone,
        IF HasPrefix(imageURL, <<"/", "/">>) THEN HttpsPrefix \o imageURL ELSE imageURL)

\* time.Time.AddDate(0, 0, -1) on the date fields
Yesterday(t) ==
    IF t.day > 1 THEN [t EXCEPT !.day = t.day - 1]
    ELSE IF t.month > 1 THEN
        [t EXCEPT !.month = t.month - 1, !.day = DaysIn(t.month - 1, t.year)]
    ELSE [t EXCEPT !.year = t.year - 1, !.month = 12, !.day = 31]

HeutePrefix == <<"H", "e", "u", "t", "e", ",", " ">>

GesternPrefix == <<"G", "e", "s", "t", "e", "r", "n", ",", " ">>

ClockLayout == <<"15", ":", "04">>

\* DotLayouts as they would be with the month read before the day
DotLayoutsMonthFirst ==
    << <<"01", ".", "02", ".", "2006">>,
       <<"1", ".", "2", ".", "2006">>,
       <<"01", ".", "02", ".", "2006", ",", " ", "15", ":", "04">>,
       <<"1", ".", "2", ".", "2006", ",", " ", "15", ":", "04">> >>

DotLayouts ==
    << <<"02", ".", "01", ".", "2006">>,
       <<"2", ".", "1", ".", "2006">>,
       <<"02", ".", "01", ".", "2006", ",", " ", "15", ":", "04">>,
       <<"2", ".", "1", ".", "2006", ",", " ", "15", ":", "04">> >>

\* the first layout of the list that parses the value gives the time
RECURSIVE FirstParse(_, _)
FirstParse(layouts, value) ==
    IF layouts = <<>> THEN ParseFail
    ELSE LET next(r) == IF r.ok THEN r ELSE FirstParse(Tail(layouts), value)
         IN  Let(TimeParse(Head(layouts), value), next)

\* ExtractCreationDate as it would be if a text that does not parse were
\* dated with the current time
ExtractCreationDateOrNow(now, rawText) ==
    LET dateText == TrimSpace(rawText) IN
    IF dateText = <<>> THEN now
    ELSE IF HasPrefix(dateText, HeutePrefix) THEN
        LET r == TimeParse(ClockLayout, TrimPrefix(dateText, HeutePrefix)) IN
        IF r.ok THEN [year |-> now.year, month |-> now.month, day |-> now.day,
                      hour |-> r.t.hour, min |-> r.t.min, sec |-> 0, loc |-> now.loc]
        ELSE now
    ELSE IF HasPrefix(dateText, GesternPrefix) THEN
        LET r == TimeParse(ClockLayout, TrimPrefix(dateText, GesternPrefix))
            y == Yesterday(now)
        IN  IF r.ok THEN [year |-> y.year, month |-> y.month, day |-> y.day,
                          hour |-> r.t.hour, min |-> r.t.min, sec |-> 0, loc |-> now.loc]
            ELSE now
    ELSE IF Contains(dateText, ".") THEN
        LET r == FirstParse(DotLayouts, dateText) IN
        IF r.ok THEN r.t ELSE now
    ELSE now

\* the creation date extractPart reads from the date container (zero when
\* the text is empty or does not parse)
ExtractCreationDate(now, rawText) ==
    LET dateText == TrimSpace(rawText) IN
    IF dateText = <<>> THEN ZeroTime
    ELSE IF HasPrefix(dateText, HeutePrefix) THEN
        LET r == TimeParse(ClockLayout, TrimPrefix(dateText, HeutePrefix)) IN
        IF r.ok THEN [year |-> now.year, month |-> now.month, day |-> now.day,
                      hour |-> r.t.hour, min |-> r.t.min, sec |-> 0, loc |-> now.loc]
        ELSE ZeroTime
    ELSE IF HasPrefix(dateText, GesternPrefix) THEN
        LET r == TimeParse(ClockLayout, TrimPrefix(dateText, GesternPrefix))
            y == Yesterday(now)
        IN  IF r.ok THEN [year |-> y.year, month |-> y.month, day |-> y.day,
                          hour |-> r.t.hour, min |-> r.t.min, sec |-> 0, loc |-> now.loc]
            ELSE ZeroTime
    ELSE IF Contains(dateText, ".") THEN
        LET r == FirstParse(DotLayouts, dateText) IN
        IF r.ok THEN r.t ELSE ZeroTime
    ELSE ZeroTime

\* an attribute or element the markup does not carry
Absent == <<"(absent)">>

\* extractPart on one article.aditem element s
ExtractPart(c, ctxDone, now, s) ==
    LET p0 == [ZeroPart EXCEPT !.SiteID = c.siteID,
                               !.CreationDate = ExtractCreationDate(now, s.dateText)]
    IN
    IF s.adid = Absent \/ s.adid = <<>> THEN
        [err |-> "missing data-adid", part |-> p0, gets |-> <<>>]
    ELSE IF s.href = Absent \/ s.href = <<>> THEN
        [err |-> "missing data-href", part |-> [p0 EXCEPT !.ID = s.adid], gets |-> <<>>]
    ELSE IF TrimSpace(s.title) = <<>> THEN
        [err |-> "missing title",
         part |-> [p0 EXCEPT !.ID = s.adid, !.URL = c.baseURL \o s.href], gets |-> <<>>]
    ELSE
        LET p1 == [p0 EXCEPT !.ID = s.adid, !.URL = c.baseURL \o s.href,
                             !.Name = TrimSpace(s.title),
                             !.Description = TrimSpace(s.descr),
                             !.Price = TrimSpace(s.price)]
        IN
        IF s.imgSrc # Absent /\ s.imgSrc # <<>> THEN
            LET withImage(img) ==
                    [err |-> NoErr,
                     part |-> IF img.err # NoErr THEN p1
                              ELSE [p1 EXCEPT !.ImageBase64 = img.data],
                     gets |-> img.gets]
            IN  Let(KleinanzeigenFetchImageAsBase64(c, ctxDone, s.imgSrc), withImage)
        ELSE [err |-> NoErr, part |-> p1, gets |-> <<>>]

\* the context is done for article i when it was done before the page was
\* requested or is cancelled while article cancelAt is being extracted
DoneAt(ctxDone, cancelAt, i) == ctxDone \/ (cancelAt > 0 /\ i >= cancelAt)

\* ExtractAll as it would be if the callback appended the part extractPart
\* returns with an error too
ExtractAllKeepFailed(c, ctxDone, cancelAt, now, articles) ==
    LET extract(i) == ExtractPart(c, DoneAt(ctxDone, cancelAt, i), now, articles[i])
        parts(kept) == LET part(j) == kept[j].part IN Map(Len(kept), part)
        both(e) == [parts |-> parts(e), gets |-> SentGets(e)]
    IN  Let(Map(Len(articles), extract), both)

\* the Each loop of fetchSinglePage: every article is extracted in turn, the
\* ones extractPart fails on are left out
ExtractAll(c, ctxDone, cancelAt, now, articles) ==
    LET extract(i) == ExtractPart(c, DoneAt(ctxDone, cancelAt, i), now, articles[i])
        ok(r) == r.err = NoErr
        parts(kept) == LET part(j) == kept[j].part IN Map(Len(kept), part)
        both(e) == [parts |-> Let(SelectSeq(e, ok), parts), gets |-> SentGets(e)]
    IN  Let(Map(Len(articles), extract), both)

\* fetchSinglePage: resp is what the site answers to the GET of the page
FetchSinglePage(c, ctxDone, cancelAt, now, resp) ==
    IF ctxDone \/ resp.kind = "connfail" THEN
        [err |-> "failed to execute request", parts |-> <<>>, gets |-> <<>>]
    ELSE IF resp.kind = "status" THEN
        [err |-> "unexpected status code", parts |-> <<>>, gets |-> <<>>]
    ELSE IF resp.kind = "readfail" THEN
        [err |-> "failed to read response body", parts |-> <<>>, gets |-> <<>>]
    ELSE IF resp.kind = "badhtml" THEN
        [err |-> "failed to parse HTML", parts |-> <<>>, gets |-> <<>>]
    ELSE IF Len(resp.articles) = 0 THEN
        [err |-> NoErr, parts |-> <<>>, gets |-> <<>>]
    ELSE
        LET page(r) == [err |-> NoErr, parts |-> r.parts, gets |-> r.gets]
        IN  Let(ExtractAll(c, ctxDone, cancelAt, now, resp.articles), page)

\* the page number buildSearchURLWithPage puts in the query (none on page 1)
BuildSearchURLWithPage(c, page) ==
    [method |-> "GET", base |-> c.baseURL,
     pageNum |-> IF page > 1 THEN Sprintd(page) ELSE <<>>]

\* KleinanzeigenLastPage as it would be if a page that lacks one part of a
\* full page still counted as full
KleinanzeigenLastPageButOne(pageParts) == Len(pageParts) < itemsPerPage - 1

\* KleinanzeigenLastPage as it would be if a page of exactly itemsPerPage
\* parts counted as the last one
KleinanzeigenLastPageInclusive(pageParts) == Len(pageParts) <= itemsPerPage

\* "fewer parts than a full page": the page just fetched is the last one
KleinanzeigenLastPage(pageParts) == Len(pageParts) < itemsPerPage

\* KleinanzeigenLoopCondition as it would be without the page ceiling
KleinanzeigenLoopConditionNoCeiling(page) == page >= 1

\* the condition of the loop of FetchParts
KleinanzeigenLoopCondition(page) == page <= maxPages

\* one pass of the loop body of FetchParts, after fetchSinglePage answered
\* fetched: what the pass leaves in allParts and page, and whether the call
\* goes on ("loop") or returns ("return" the list, "fail" an error)
KleinanzeigenLoopBody(limit, allParts, page, fetched) ==
    IF fetched.err # NoErr THEN
        [next |-> "fail", err |-> "failed to fetch page", allParts |-> allParts,
         page |-> page]
    ELSE IF Len(fetched.parts) = 0 THEN
        [next |-> "return", err |-> NoErr, allParts |-> allParts, page |-> page]
    ELSE
        LET all == AppendParts(allParts, fetched.parts) IN
        IF KleinanzeigenLastPage(fetched.parts) THEN
            [next |-> "return", err |-> NoErr, allParts |-> all, page |-> page]
        ELSE IF limit > 0 /\ Len(all) >= limit THEN
            [next |-> "return", err |-> NoErr, allParts |-> SubSeq(all, 1, limit),
             page |-> page]
        ELSE IF KleinanzeigenLoopCondition(page + 1) THEN
            [next |-> "loop", err |-> NoErr, allParts |-> all, page |-> page + 1]
        ELSE [next |-> "return", err |-> NoErr, allParts |-> all, page |-> page + 1]

(***************************************************************************)
(* SchadeAutosClient.                                                      *)
(***************************************************************************)
SchadeAutosBaseURL == <<"h", "t", "t", "p", "s", ":", "/", "/", "w", "w", "w", ".", "s", "c", "h", "a", "d", "e", "a", "u", "t", "o", "s", ".", "n", "l">>

NewSchadeAutosClient(id) ==
    [kind |-> "schadeautos", baseURL |-> SchadeAutosBaseURL, siteID |-> id]

EnterDateLayouts ==
    << <<"2006", "-", "01", "-", "02">>,
       <<"2006", "-", "01", "-", "02", " ", "15", ":", "04", ":", "05">>,
       <<"02", "-", "01", "-", "2006">>,
       <<"02", "/", "01", "/", "2006">> >>

\* parseEnterDate as it would be if it answered an unparseable date with a
\* pointer to the zero time
ParseEnterDateZero(dateStr) ==
    IF dateStr = <<>> THEN [nil |-> FALSE, t |-> ZeroTime]
    ELSE LET r == FirstParse(EnterDateLayouts, dateStr) IN
        IF r.ok THEN [nil |-> FALSE, t |-> r.t] ELSE [nil |-> FALSE, t |-> ZeroTime]

\* parseEnterDate: a pointer to the parsed time, or nil
ParseEnterDate(dateStr) ==
    IF dateStr = <<>> THEN [nil |-> TRUE, t |-> ZeroTime]
    ELSE LET r == FirstParse(EnterDateLayouts, dateStr) IN
        IF r.ok THEN [nil |-> FALSE, t |-> r.t] ELSE [nil |-> TRUE, t |-> ZeroTime]

BuildPartURL(c, partID) == c.baseURL \o <<"/", "p", "a", "r", "t", "s", "/", "e", "n", "g", "/", "p", "a", "r", "t", "/">> \o partID

SchadeAutosFetchImageAsBase64(c, ctxDone, imageURL) ==
    DoImageGet(ctxDone,
        IF HasPrefix(imageURL, <<"/", "/">>) THEN HttpsPrefix \o imageURL
        ELSE IF HasPrefix(imageURL, <<"/">>) THEN c.baseURL \o imageURL
        ELSE imageURL)

\* the fields of the form FetchParts posts that depend on the parameters
SchadeAutosFormData(params) ==
    [yearFrom |-> Sprintd(IF params.YearFrom = 0 THEN 1995 ELSE params.YearFrom),
     yearTo   |-> Sprintd(IF params.YearTo = 0 THEN 2000 ELSE params.YearTo),
     offset   |-> Sprintd(params.Offset),
     limit    |-> Sprintd(IF params.Limit = 0 THEN 3000 ELSE params.Limit)]

\* SchadeAutosPart as it would be without the SiteID field set
SchadeAutosPartNoSiteID(c, partID, stockPart, d, img) ==
    [ZeroPart EXCEPT
        !.ID = partID,
        !.Description = stockPart.descr,
        !.Name = stockPart.name,
        !.URL = BuildPartURL(c, partID),
        !.Price = PricePrefix \o stockPart.price,
        !.CreationDate = d.t,
        !.ImageBase64 = IF img.err = NoErr THEN img.data ELSE <<>>]

\* the Part FetchParts builds for one entry whose date parsed to d, img being
\* the outcome of the image fetch
SchadeAutosPart(c, partID, stockPart, d, img) ==
    [ZeroPart EXCEPT
        !.ID = partID,
        !.Description = stockPart.descr,
        !.Name = stockPart.name,
        !.URL = BuildPartURL(c, partID),
        !.SiteID = c.siteID,
        !.Price = PricePrefix \o stockPart.price,
        !.CreationDate = d.t,
        !.ImageBase64 = IF img.err = NoErr THEN img.data ELSE <<>>]

\* the conversion loop of FetchParts over the stockParts mapping, visited in
\* the order the map iteration takes.  Dereferencing the nil pointer
\* parseEnterDate returns for an unparseable date panics: the loop ends at
\* the first such entry, after the image requests of the entries before it.
SchadeAutosConvert(c, ctxDone, cancelAt, stockParts, order) ==
    LET n == Len(order)
        date(i) == ParseEnterDate(stockParts[order[i]].enterDate)
        image(i) ==
            IF stockParts[order[i]].picture # <<>>
            THEN SchadeAutosFetchImageAsBase64(c, DoneAt(ctxDone, cancelAt, i),
                                               stockParts[order[i]].picture)
            ELSE [err |-> "no picture", data |-> <<>>, gets |-> <<>>]
        loop(d) ==
            LET nils == {i \in 1..n : d[i].nil}
                stop == IF nils = {} THEN n + 1 ELSE Min(nils)
                convert(img) ==
                    LET part(i) ==
                            SchadeAutosPart(c, order[i], stockParts[order[i]], d[i], img[i])
                    IN  [panic |-> Len(img) < n,
                         parts |-> IF Len(img) < n THEN <<>> ELSE Map(n, part),
                         gets  |-> SentGets(img)]
            IN  Let(Map(stop - 1, image), convert)
    IN  Let(Map(n, date), loop)

\* FetchParts after the form is built: resp is what the site answers to the
\* POST, order the order in which the map iteration visits resp.stockParts
SchadeAutosFetchParts(c, ctxDone, cancelAt, resp, order) ==
    IF ctxDone \/ resp.kind = "connfail" THEN
        [next |-> "fail", err |-> "failed to execute request", parts |-> <<>>, gets |-> <<>>]
    ELSE IF resp.kind = "status" THEN
        [next |-> "fail", err |-> "unexpected status code", parts |-> <<>>, gets |-> <<>>]
    ELSE IF resp.kind = "badjson" THEN
        [next |-> "fail", err |-> "failed to decode response", parts |-> <<>>, gets |-> <<>>]
    ELSE
        LET done(r) ==
                IF r.panic
                THEN [next |-> "panic", err |-> NoErr, parts |-> <<>>, gets |-> r.gets]
                ELSE [next |-> "return", err |-> NoErr, parts |-> r.parts, gets |-> r.gets]
        IN  Let(SchadeAutosConvert(c, ctxDone, cancelAt, resp.stockParts, order), done)

(***************************************************************************)
(* EbayClient.                                                             *)
(***************************************************************************)
EbayBaseURL == <<"h", "t", "t", "p", "s", ":", "/", "/", "s", "v", "c", "s", ".", "e", "b", "a", "y", ".", "c", "o", "m", "/", "s", "e", "r", "v", "i", "c", "e", "s", "/", "s", "e", "a", "r", "c", "h", "/", "F", "i", "n", "d", "i", "n", "g", "S", "e", "r", "v", "i", "c", "e", "/", "v", "1">>

EbayPageSize == 200

NewEbayClient(id, appID, secret, isSandbox) ==
    [kind |-> "ebay", baseURL |-> EbayBaseURL, siteID |-> id, accessToken |-> <<>>,
     clientID |-> appID, clientSecret |-> secret, isSandbox |-> isSandbox]

GetTokenURL(c) == IF c.isSandbox THEN "sandboxTokenURL" ELSE "prodTokenURL"

\* GetAccessToken as it would be if it kept a token the instance already has
GetAccessTokenKeepsFirst(c, resp) ==
    IF resp.kind = "ok" /\ c.accessToken = <<>>
    THEN [err |-> NoErr, client |-> [c EXCEPT !.accessToken = resp.accessToken]]
    ELSE [err |-> IF resp.kind = "ok" THEN NoErr ELSE "failed to get token", client |-> c]

\* GetAccessToken as it would be if a failed exchange cleared the token
GetAccessTokenClearsOnFailure(c, resp) ==
    IF resp.kind = "ok"
    THEN [err |-> NoErr, client |-> [c EXCEPT !.accessToken = resp.accessToken]]
    ELSE [err |-> "failed to get token", client |-> [c EXCEPT !.accessToken = <<>>]]

\* GetAccessToken: resp is what the token endpoint answers to the POST.
\* The client after the call and the error the call returns.
GetAccessToken(c, resp) ==
    IF resp.kind = "connfail" THEN [err |-> "failed to get token", client |-> c]
    ELSE IF resp.kind = "readfail" THEN [err |-> "failed to read response", client |-> c]
    ELSE IF resp.kind = "status" THEN [err |-> "token request failed", client |-> c]
    ELSE IF resp.kind = "badjson" THEN
        [err |-> "failed to parse token response", client |-> c]
    ELSE [err |-> NoErr, client |-> [c EXCEPT !.accessToken = resp.accessToken]]

\* the token request GetAccessToken sends
TokenRequest(c) ==
    [kind |-> "token", method |-> "POST", url |-> GetTokenURL(c),
     auth |-> <<"B", "a", "s", "i", "c", " ">>
                \o EncodeToString(c.clientID \o <<58>> \o c.clientSecret)]

\* EbaySearchRequest as it would be if the offset counted pages, not items
EbaySearchRequestPageOffset(c, offset) ==
    [kind |-> "search", method |-> "GET", limit |-> Sprintd(EbayPageSize),
     offset |-> Sprintd(offset \div EbayPageSize),
     auth |-> <<"B", "e", "a", "r", "e", "r", " ">> \o c.accessToken]

\* the search request of one pass of the loop of FetchParts
EbaySearchRequest(c, offset) ==
    [kind |-> "search", method |-> "GET", limit |-> Sprintd(EbayPageSize),
     offset |-> Sprintd(offset),
     auth |-> <<"B", "e", "a", "r", "e", "r", " ">> \o c.accessToken]

EbayFetchImageAsBase64(c, ctxDone, imageURL) == DoImageGet(ctxDone, imageURL)

\* the Part FetchParts builds for one item, img being the outcome of the
\* image fetch
EbayPart(c, item, img) ==
    [ZeroPart EXCEPT
        !.ID = item.itemId,
        !.Description = item.title,
        !.Name = item.title,
        !.URL = item.itemWebUrl,
        !.SiteID = c.siteID,
        !.Price = PricePrefix \o item.priceValue,
        !.CreationDate = item.itemOriginDate,
        !.ImageBase64 = IF img.err = NoErr THEN img.data ELSE <<>>]

\* EbayLastPage as it would be with the comparison off by one
EbayLastPageInclusive(parts) == Len(parts) <= EbayPageSize

\* EbayLastPage as it would be if an empty page were not taken for the end
EbayLastPageNonEmpty(parts) == 0 < Len(parts) /\ Len(parts) < EbayPageSize

\* "less than 200 results returned": the page just fetched is the last one
EbayLastPage(parts) == Len(parts) < EbayPageSize

\* EbayConvert as it would be if an item whose image fetch fails were left
\* out of the page
EbayConvertDropsFailed(c, ctxDone, cancelAt, items) ==
    LET n == Len(items)
        image(i) ==
            IF Len(items[i].thumbnailImages) > 0 /\ items[i].thumbnailImages[1] # <<>>
            THEN EbayFetchImageAsBase64(c, DoneAt(ctxDone, cancelAt, i),
                                        items[i].thumbnailImages[1])
            ELSE [err |-> "no thumbnail", data |-> <<>>, gets |-> <<>>]
        convert(img) ==
            LET part(i) == [p |-> EbayPart(c, items[i], img[i]), img |-> img[i]]
                fetched(e) == e.img.err \in {NoErr, "no thumbnail"}
                keep(all) == LET p(i) == all[i].p IN Map(Len(all), p)
            IN  [parts |-> Let(SelectSeq(Map(n, part), fetched), keep),
                 gets |-> SentGets(img)]
    IN  Let(Map(n, image), convert)

\* the conversion loop of FetchParts over itemSummaries
EbayConvert(c, ctxDone, cancelAt, items) ==
    LET n == Len(items)
        image(i) ==
            IF Len(items[i].thumbnailImages) > 0 /\ items[i].thumbnailImages[1] # <<>>
            THEN EbayFetchImageAsBase64(c, DoneAt(ctxDone, cancelAt, i),
                                        items[i].thumbnailImages[1])
            ELSE [err |-> "no thumbnail", data |-> <<>>, gets |-> <<>>]
        convert(img) ==
            LET part(i) == EbayPart(c, items[i], img[i])
            IN  [parts |-> Map(n, part), gets |-> SentGets(img)]
    IN  Let(Map(n, image), convert)

\* EbayLoopCondition as it would be with a ceiling of three pages
EbayLoopConditionCeiling(offset) == offset < 3 * EbayPageSize

\* the condition of the loop of FetchParts: "for {" has none
EbayLoopCondition(offset) == TRUE

\* one pass of the loop body of FetchParts, after the search request was
\* answered resp
EbayLoopBody(c, ctxDone, cancelAt, allParts, offset, resp) ==
    IF ctxDone \/ resp.kind = "connfail" THEN
        [next |-> "fail", err |-> "failed to execute request", allParts |-> allParts,
         offset |-> offset, gets |-> <<>>]
    ELSE IF resp.kind = "status" THEN
        [next |-> "fail", err |-> "unexpected status code", allParts |-> allParts,
         offset |-> offset, gets |-> <<>>]
    ELSE IF resp.kind = "badjson" THEN
        [next |-> "fail", err |-> "failed to decode response", allParts |-> allParts,
         offset |-> offset, gets |-> <<>>]
    ELSE
        LET pass(r) ==
                IF EbayLastPage(r.parts) THEN
                    [next |-> "return", err |-> NoErr, allParts |-> AppendParts(allParts, r.parts),
                     offset |-> offset, gets |-> r.gets]
                ELSE [next |-> IF EbayLoopCondition(offset + EbayPageSize) THEN "loop" ELSE "return",
                      err |-> NoErr, allParts |-> AppendParts(allParts, r.parts),
                      offset |-> offset + EbayPageSize, gets |-> r.gets]
        IN  Let(EbayConvert(c, ctxDone, cancelAt, resp.itemSummaries), pass)

(***************************************************************************)
(* What the callers and the sites put in: parameters, clocks, pages.       *)
(***************************************************************************)
SearchParams(limit, offset, yearFrom, yearTo) ==
    [Limit |-> limit, Offset |-> offset, YearFrom |-> yearFrom, YearTo |-> yearTo]

ParamsSet ==
    {SearchParams(0, 0, 0, 0), SearchParams(1, 0, 1996, 1999),
     SearchParams(30, 10, 0, 2001)}

\* values of time.Now() during a call
Nows ==
    {[year |-> 2024, month |-> 3, day |-> 1, hour |-> 0, min |-> 30, sec |-> 12,
      loc |-> "Europe/Berlin"],
     [year |-> 2023, month |-> 1, day |-> 1, hour |-> 23, min |-> 59, sec |-> 59,
      loc |-> "Local"]}

\* a page (or a stockParts mapping) of n entries, all plain but the one at
\* position pos, which is of the kind named
Template(n, pos, kind) == [n |-> n, pos |-> pos, kind |-> kind]

EmptyTemplate == Template(0, 0, "good")

TemplateEntries(tpl, plain(_), variant(_, _)) ==
    LET entry(i) == IF i = tpl.pos THEN variant(plain(i), tpl.kind) ELSE plain(i)
    IN  Map(tpl.n, entry)

\* article.aditem elements
GoodArticle(page, i) ==
    [adid     |-> <<"a">> \o Sprintd(page) \o <<"-">> \o Sprintd(i),
     href     |-> <<"/", "s", "/">> \o Sprintd(page) \o <<"/">> \o Sprintd(i),
     title    |-> <<"\n", " ", "L", "a", "m", "p", " ">>,
     descr    |-> <<" ", "o", "k">>,
     price    |-> <<"5", "0", " ", "V", "B", "\n">>,
     dateText |-> <<"0", "1", ".", "0", "2", ".", "2", "0", "2", "3">>,
     imgSrc   |-> <<"h", "t", "t", "p", "s", ":", "/", "/", "i", "/", "x">>]

ArticleVariant(a, kind) ==
    CASE kind = "noid"      -> [a EXCEPT !.adid = Absent]
      [] kind = "emptyid"   -> [a EXCEPT !.adid = <<>>]
      [] kind = "nohref"    -> [a EXCEPT !.href = Absent]
      [] kind = "notitle"   -> [a EXCEPT !.title = <<" ", "\n">>]
      [] kind = "noimg"     -> [a EXCEPT !.imgSrc = Absent]
      [] kind = "imgrel"    -> [a EXCEPT !.imgSrc = <<"/", "/", "i", "/", "x">>]
      [] kind = "imghost"   -> [a EXCEPT !.imgSrc = <<"/", "p", "/", "x">>]
      [] kind = "img404"    -> [a EXCEPT !.imgSrc = <<"h", "t", "t", "p", "s", ":", "/", "/", "i", "/", "y">>]
      [] kind = "imgconn"   -> [a EXCEPT !.imgSrc = <<"h", "t", "t", "p", "s", ":", "/", "/", "i", "/", "z">>]
      [] kind = "heute"     -> [a EXCEPT !.dateText = <<"H", "e", "u", "t", "e", ",", " ", "1", "4", ":", "0", "5">>]
      [] kind = "gestern"   -> [a EXCEPT !.dateText = <<"G", "e", "s", "t", "e", "r", "n", ",", " ", "9", ":", "3", "0">>]
      [] kind = "heutebad"  -> [a EXCEPT !.dateText = <<"H", "e", "u", "t", "e", ",", " ", "2", "5", ":", "0", "0">>]
      [] kind = "gesternbad" -> [a EXCEPT !.dateText = <<"G", "e", "s", "t", "e", "r", "n", ",", " ", "9", ":", "6", "0">>]
      [] kind = "shortdate" -> [a EXCEPT !.dateText = <<"1", ".", "2", ".", "2", "0", "2", "3">>]
      [] kind = "datetime"  -> [a EXCEPT !.dateText = <<"0", "1", ".", "0", "2", ".", "2", "0", "2", "3", ",", " ", "1", "4", ":", "0", "5">>]
      [] kind = "baddate"   -> [a EXCEPT !.dateText = <<"3", "1", ".", "0", "2", ".", "2", "0", "2", "3">>]
      [] kind = "worddate"  -> [a EXCEPT !.dateText = <<"v", "o", "r", " ", "3", " ", "T", "a", "g", "e", "n">>]
      [] kind = "nodate"    -> [a EXCEPT !.dateText = <<>>]
      [] OTHER              -> a

ArticleKinds ==
    {"good", "noid", "emptyid", "nohref", "notitle", "noimg", "imgrel", "imghost",
     "img404", "imgconn", "heute", "gestern", "heutebad", "gesternbad", "shortdate",
     "datetime", "baddate", "worddate", "nodate"}

MalformedKinds == {"noid", "emptyid", "nohref", "notitle"}

\* the pages the site can answer: every kind of article, and a page of more
\* than itemsPerPage articles, on the first page of a call, a few on the later
\* ones
KleinanzeigenTemplates(first) ==
    {EmptyTemplate, Template(SmallPage, 1, "good"), Template(itemsPerPage, 1, "good"),
     Template(itemsPerPage, 1, "noid")}
        \cup (IF first
              THEN {Template(SmallPage, pos, k) : pos \in {1, SmallPage}, k \in ArticleKinds}
                    \cup {Template(itemsPerPage, itemsPerPage, "notitle"),
                          Template(itemsPerPage + 1, 1, "good")}
              ELSE {})

PageArticles(tpl, page) ==
    LET plain(i) == GoodArticle(page, i)
        variant(a, k) == ArticleVariant(a, k)
    IN  TemplateEntries(tpl, plain, variant)

FailureKinds == {"connfail", "status", "readfail", "badhtml", "badjson"}

Failure(kind) == [kind |-> kind, tpl |-> EmptyTemplate]

Page(tpl) == [kind |-> "ok", tpl |-> tpl]

\* what the site can answer to a page request; a request made with a
\* cancelled context is not answered at all
KleinanzeigenResponses(ctxDone, first) ==
    IF ctxDone THEN {Failure("connfail")}
    ELSE {Failure(k) : k \in {"connfail", "status", "readfail", "badhtml"}}
            \cup {Page(t) : t \in KleinanzeigenTemplates(first)}

\* the entries of a page during whose extraction the context may be cancelled
\* (0: it is not cancelled during this page)
CancelPoints(ctxDone, resp) ==
    IF ctxDone \/ resp.kind # "ok" \/ resp.tpl.n = 0 THEN {0} ELSE {0, 1, resp.tpl.n}

\* stockParts entries
StockID(i) == <<"p">> \o Sprintd(i)

GoodStockPart(i) ==
    [descr |-> <<"d">> \o Sprintd(i), name |-> <<"n">> \o Sprintd(i),
     price |-> <<"1", "2", ",", "5", "0">>,
     enterDate |-> <<"2", "0", "2", "3", "-", "0", "2", "-", "0", "1">>, picture |-> <<"h", "t", "t", "p", "s", ":", "/", "/", "i", "/", "x">>]

StockPartVariant(sp, kind) ==
    CASE kind = "datetime"  -> [sp EXCEPT !.enterDate = <<"2", "0", "2", "3", "-", "0", "2", "-", "0", "1", " ", "1", "0", ":", "3", "0", ":", "0", "0">>]
      [] kind = "dashdate"  -> [sp EXCEPT !.enterDate = <<"0", "1", "-", "0", "2", "-", "2", "0", "2", "3">>]
      [] kind = "slashdate" -> [sp EXCEPT !.enterDate = <<"0", "1", "/", "0", "2", "/", "2", "0", "2", "3">>]
      [] kind = "nodate"    -> [sp EXCEPT !.enterDate = <<>>]
      [] kind = "baddate"   -> [sp EXCEPT !.enterDate = <<"2", "0", "2", "3", "-", "0", "2", "-", "3", "0">>]
      [] kind = "dotdate"   -> [sp EXCEPT !.enterDate = <<"0", "1", ".", "0", "2", ".", "2", "0", "2", "3">>]
      [] kind = "noimg"     -> [sp EXCEPT !.picture = <<>>]
      [] kind = "imgrel"    -> [sp EXCEPT !.picture = <<"/", "/", "i", "/", "x">>]
      [] kind = "imghost"   -> [sp EXCEPT !.picture = <<"/", "p", "/", "x">>]
      [] kind = "img404"    -> [sp EXCEPT !.picture = <<"h", "t", "t", "p", "s", ":", "/", "/", "i", "/", "y">>]
      [] kind = "imgconn"   -> [sp EXCEPT !.picture = <<"h", "t", "t", "p", "s", ":", "/", "/", "i", "/", "z">>]
      [] OTHER              -> sp

StockKinds ==
    {"good", "datetime", "dashdate", "slashdate", "nodate", "baddate", "dotdate",
     "noimg", "imgrel", "imghost", "img404", "imgconn"}

BadDateKinds == {"nodate", "baddate", "dotdate"}

SchadeAutosTemplates ==
    {EmptyTemplate}
        \cup UNION {{Template(n, pos, k) : pos \in {1, n}, k \in StockKinds} : n \in 1..MaxStock}

\* the stockParts mapping of a response, keyed by part id
StockParts(tpl) ==
    LET plain(i) == GoodStockPart(i)
        variant(sp, k) == StockPartVariant(sp, k)
        keyed(entries) ==
            [id \in {StockID(i) : i \in 1..tpl.n} |->
                entries[CHOOSE i \in 1..tpl.n : StockID(i) = id]]
    IN  Let(TemplateEntries(tpl, plain, variant), keyed)

SchadeAutosResponses(ctxDone) ==
    IF ctxDone THEN {Failure("connfail")}
    ELSE {Failure(k) : k \in {"connfail", "status", "badjson"}}
            \cup {Page(t) : t \in SchadeAutosTemplates}

\* the orders in which a map of n entries can be iterated
IterationOrders(n) ==
    {o \in [1..n -> 1..n] : \A i, j \in 1..n : i # j => o[i] # o[j]}

\* itemSummaries entries
GoodItem(offset, i) ==
    [itemId |-> <<"v">> \o Sprintd(offset + i), title |-> <<"H", "u", "b">>,
     priceValue |-> <<"9", ".", "9", "9">>,
     itemWebUrl |-> HttpsPrefix \o <<"/", "/", "e", "/">> \o Sprintd(offset + i),
     itemOriginDate |-> [year |-> 2024, month |-> 5, day |-> 17, hour |-> 8,
                         min |-> 15, sec |-> 0, loc |-> "UTC"],
     thumbnailImages |-> << <<"h", "t", "t", "p", "s", ":", "/", "/", "i", "/", "x">> >>]

ItemVariant(item, kind) ==
    CASE kind = "nothumb"    -> [item EXCEPT !.thumbnailImages = <<>>]
      [] kind = "emptythumb" -> [item EXCEPT !.thumbnailImages = << <<>> >>]
      [] kind = "imgrel"     -> [item EXCEPT !.thumbnailImages = << <<"/", "/", "i", "/", "x">> >>]
      [] kind = "img404"     -> [item EXCEPT !.thumbnailImages = << <<"h", "t", "t", "p", "s", ":", "/", "/", "i", "/", "y">> >>]
      [] kind = "imgconn"    -> [item EXCEPT !.thumbnailImages = << <<"h", "t", "t", "p", "s", ":", "/", "/", "i", "/", "z">> >>]
      [] OTHER               -> item

ItemKinds == {"good", "nothumb", "emptythumb", "imgrel", "img404", "imgconn"}

\* the pages the API can answer to a request of limit 200: at most 200 items
EbayTemplates(first) ==
    {EmptyTemplate, Template(SmallPage, 1, "good"), Template(EbayPageSize, 1, "good")}
        \cup (IF first
              THEN {Template(SmallPage, pos, k) : pos \in {1, SmallPage}, k \in ItemKinds}
              ELSE {})

ItemSummaries(tpl, offset) ==
    LET plain(i) == GoodItem(offset, i)
        variant(it, k) == ItemVariant(it, k)
    IN  TemplateEntries(tpl, plain, variant)

EbayResponses(ctxDone, first) ==
    IF ctxDone THEN {Failure("connfail")}
    ELSE {Failure(k) : k \in {"connfail", "status", "badjson"}}
            \cup {Page(t) : t \in EbayTemplates(first)}

\* the access_token of a token response; a body without the field decodes
\* to the empty string
Tokens == {<<"t", "1">>, <<"t", "2">>, <<>>}

TokenResponses ==
    {[kind |-> k, accessToken |-> <<>>] : k \in {"connfail", "readfail", "status", "badjson"}}
        \cup {[kind |-> "ok", accessToken |-> t] : t \in Tokens}

\* the ids of a list of parts
IDs(parts) == LET id(i) == parts[i].ID IN Map(Len(parts), id)

(***************************************************************************)
(* The loop of KleinanzeigenClient.FetchParts over the state of a call.    *)
(***************************************************************************)
\* one pass of the loop made by call, the site answering the page request
\* with resp and the context being cancelled at entry cancelAt of the page
KleinanzeigenPass(c, limit, now, call, resp, cancelAt) ==
    LET pass(fetched) ==
            LET after(body) ==
                    [pc |-> IF body.next = "loop" THEN "loop" ELSE "returned",
                     ctxDone |-> (call.ctxDone \/ cancelAt > 0),
                     allParts |-> body.allParts,
                     page |-> body.page,
                     searchLog |-> Append(call.searchLog,
                        [req |-> BuildSearchURLWithPage(c, call.page),
                         sent |-> ~call.ctxDone, resp |-> resp, cancelAt |-> cancelAt,
                         err |-> fetched.err, got |-> IDs(fetched.parts)]),
                     imageReqs |-> call.imageReqs \o fetched.gets,
                     result |-> IF body.next = "loop" THEN call.result
                                ELSE FetchPartsReturn(body.next, body.allParts, body.err)]
            IN  Let(KleinanzeigenLoopBody(limit, call.allParts, call.page, fetched), after)
    IN  Let(FetchSinglePage(c, call.ctxDone, cancelAt, now,
                [kind |-> resp.kind, articles |-> PageArticles(resp.tpl, call.page)]), pass)

\* what a site answers to the page requests of one call: a full page of
\* plain articles to each of the first full requests, last to every later one
ScriptAnswer(script, n) ==
    IF n <= script.full THEN Page(Template(itemsPerPage, 1, "good")) ELSE script.last

\* the passes lo..hi of the loop, for as long as the call stays in it; the
\* context is cancelled right before request number in.cancelBefore (0: never)
RECURSIVE KleinanzeigenPasses(_, _, _, _)
KleinanzeigenPasses(in, lo, hi, call) ==
    IF call.pc # "loop" THEN call
    ELSE IF lo = hi THEN
        LET pass(n) ==
                LET cancelled == call.ctxDone \/ in.cancelBefore = n IN
                KleinanzeigenPass(in.c, in.limit, in.now,
                    [call EXCEPT !.ctxDone = cancelled],
                    IF cancelled THEN Failure("connfail") ELSE ScriptAnswer(in.script, n), 0)
        IN  Let(Len(call.searchLog) + 1, pass)
    ELSE
        LET rest(half) == KleinanzeigenPasses(in, (lo + hi) \div 2 + 1, hi, half)
        IN  Let(KleinanzeigenPasses(in, lo, (lo + hi) \div 2, call), rest)

(***************************************************************************)
(* The state: one client instance and the FetchParts call in progress on   *)
(* it.                                                                     *)
(***************************************************************************)
VARIABLES
    client,     \* the fields of the client instance
    pc,         \* where the call is: "idle", "token", "post", "loop", "returned"
                \* or "panicked"
    params,     \* the SearchParams of the call
    now,        \* the wall clock of the call
    ctxDone,    \* the context of the call has been cancelled
    allParts,   \* the accumulating list of the call
    page,       \* KleinanzeigenClient: the page to request next
    offset,     \* EbayClient: the offset to request next
    tokenLog,   \* the token exchanges of the call, with their outcome
    searchLog,  \* the search requests of the call, with their answer
    imageReqs,  \* the image URLs requested by the call
    result,     \* what the call returns
    other       \* a second call on the same instance, while it is not the one
                \* taking steps: its position and its locals

vars ==
    <<client, pc, params, now, ctxDone, allParts, page, offset, tokenLog, searchLog,
      imageReqs, result, other>>

SiteIDs == {3, 4}

\* the credentials, as bytes
AppID == <<105, 100>>

ClientSecret == <<115, 101, 99>>

Clients ==
    {NewKleinanzeigenClient(id) : id \in SiteIDs}
        \cup {NewSchadeAutosClient(id) : id \in SiteIDs}
        \cup {NewEbayClient(5, AppID, ClientSecret, FALSE)}

NoParams == SearchParams(0, 0, 0, 0)

NoClock == ZeroTime

\* the call in progress: where it is and its locals
Call ==
    [pc |-> pc, params |-> params, now |-> now, ctxDone |-> ctxDone,
     allParts |-> allParts, page |-> page, offset |-> offset, tokenLog |-> tokenLog,
     searchLog |-> searchLog, imageReqs |-> imageReqs, result |-> result]

\* no call in progress
NoCall ==
    [pc |-> "idle", params |-> NoParams, now |-> NoClock, ctxDone |-> FALSE,
     allParts |-> <<>>, page |-> 0, offset |-> 0, tokenLog |-> <<>>,
     searchLog |-> <<>>, imageReqs |-> <<>>, result |-> NoResult]

CallIdle ==
    /\ pc = "idle"
    /\ params = NoParams
    /\ now = NoClock
    /\ ctxDone = FALSE
    /\ allParts = <<>>
    /\ page = 0
    /\ offset = 0
    /\ tokenLog = <<>>
    /\ searchLog = <<>>
    /\ imageReqs = <<>>
    /\ result = NoResult
    /\ other = NoCall

Init ==
    /\ client \in Clients
    /\ CallIdle

\* the searches and the clock of two calls on one instance
FewParams == {SearchParams(0, 0, 0, 0), SearchParams(30, 10, 0, 2001)}

FewNows ==
    {[year |-> 2024, month |-> 3, day |-> 1, hour |-> 0, min |-> 30, sec |-> 12,
      loc |-> "Europe/Berlin"]}

\* a caller calls FetchParts; few: with one of the searches and at the clock
\* of two calls on one instance
StartStep(few) ==
    /\ pc = "idle"
    /\ \E p \in (IF few THEN FewParams ELSE ParamsSet) :
        /\ params' = p
        /\ \/ /\ client.kind = "kleinanzeigen"
              /\ pc' = "loop"
              /\ page' = 1
              /\ \E n \in (IF few THEN FewNows ELSE Nows) : now' = n
           \/ /\ client.kind = "schadeautos"
              /\ pc' = "post"
              /\ UNCHANGED <<page, now>>
           \/ /\ client.kind = "ebay"
              /\ pc' = "token"
              /\ UNCHANGED <<page, now>>
    /\ UNCHANGED <<client, ctxDone, allParts, offset, tokenLog, searchLog, imageReqs, result,
                   other>>

\* a caller calls FetchParts
StartFetchParts == StartStep(FALSE)

\* KleinanzeigenClient.FetchParts: one pass of the loop, for a call that has
\* made fewer than bound page requests, the site answering with one of
\* responses
KleinanzeigenStep(bound, responses) ==
    /\ client.kind = "kleinanzeigen"
    /\ pc = "loop"
    /\ Len(searchLog) < bound
    /\ \E resp \in responses :
       \E cancelAt \in CancelPoints(ctxDone, resp) :
       \E after \in {KleinanzeigenPass(client, params.Limit, now, Call, resp, cancelAt)} :
        /\ searchLog' = after.searchLog
        /\ imageReqs' = after.imageReqs
        /\ ctxDone' = after.ctxDone
        /\ allParts' = after.allParts
        /\ page' = after.page
        /\ pc' = after.pc
        /\ result' = after.result
    /\ UNCHANGED <<client, params, now, offset, tokenLog, other>>

\* KleinanzeigenClient.FetchParts: one pass of the loop
KleinanzeigenFetchPage ==
    KleinanzeigenStep(MaxRequests, KleinanzeigenResponses(ctxDone, searchLog = <<>>))

\* SchadeAutosAfterPost as it would be if a response flagged as limited made
\* the call post the form again
SchadeAutosAfterPostRefetch(next, limited) ==
    IF next = "panic" THEN "panicked" ELSE IF limited THEN "post" ELSE "returned"

\* where the call is after the POST was answered and the conversion loop
\* ended: the Limited flag of the response is printed and not read again
SchadeAutosAfterPost(next, limited) == IF next = "panic" THEN "panicked" ELSE "returned"

\* SchadeAutosClient.FetchParts: the form, the POST and the conversion, the
\* site answering with one of responses
SchadeAutosStep(responses) ==
    /\ client.kind = "schadeautos"
    /\ pc = "post"
    /\ \E resp \in responses :
       \E limited \in (IF resp.kind = "ok" THEN BOOLEAN ELSE {FALSE}) :
       \E cancelAt \in CancelPoints(ctxDone, resp) :
       \E o \in IterationOrders(resp.tpl.n) :
       \E order \in {[i \in 1..resp.tpl.n |-> StockID(o[i])]} :
       \E stockParts \in {StockParts(resp.tpl)} :
       \E r \in {SchadeAutosFetchParts(client, ctxDone, cancelAt,
                        [kind |-> resp.kind, stockParts |-> stockParts], order)} :
        /\ searchLog' = Append(searchLog,
                [req |-> [method |-> "POST", base |-> client.baseURL,
                          form |-> SchadeAutosFormData(params)],
                 sent |-> ~ctxDone, resp |-> resp, limited |-> limited,
                 cancelAt |-> cancelAt, err |-> r.err, got |-> IDs(r.parts)])
        /\ imageReqs' = imageReqs \o r.gets
        /\ ctxDone' = (ctxDone \/ cancelAt > 0)
        /\ allParts' = r.parts
        /\ pc' = SchadeAutosAfterPost(r.next, limited)
        /\ IF r.next = "panic"
           THEN result' = result
           ELSE result' = FetchPartsReturn(r.next, r.parts, r.err)
    /\ UNCHANGED <<client, params, now, page, offset, tokenLog, other>>

\* SchadeAutosClient.FetchParts: the form, the POST and the conversion
SchadeAutosFetch == SchadeAutosStep(SchadeAutosResponses(ctxDone))

\* what the token endpoint answers to the calls of two on one instance
FewTokenResponses ==
    {[kind |-> "status", accessToken |-> <<>>],
     [kind |-> "ok", accessToken |-> <<"t", "1">>],
     [kind |-> "ok", accessToken |-> <<"t", "2">>]}

\* EbayClient.FetchParts: the call of GetAccessToken, whose error is dropped;
\* few: the token endpoint answers as it does to two calls on one instance
EbayTokenStep(few) ==
    /\ client.kind = "ebay"
    /\ pc = "token"
    /\ \E resp \in (IF few THEN FewTokenResponses ELSE TokenResponses) :
       \E r \in {GetAccessToken(client, resp)} :
        /\ client' = r.client
        /\ tokenLog' = Append(tokenLog,
                [req |-> TokenRequest(client), resp |-> resp, err |-> r.err])
    /\ pc' = "loop"
    /\ offset' = 0
    /\ allParts' = <<>>
    /\ UNCHANGED <<params, now, ctxDone, page, searchLog, imageReqs, result, other>>

\* EbayClient.FetchParts: the call of GetAccessToken, whose error is dropped
EbayGetAccessToken == EbayTokenStep(FALSE)

\* EbayClient.FetchParts: one pass of the loop, for a call that has made fewer
\* than bound search requests, the API answering with one of responses;
\* reader holds the fields of the instance as the pass reads them
EbayStep(reader, bound, responses) ==
    /\ client.kind = "ebay"
    /\ pc = "loop"
    /\ Len(searchLog) < bound
    /\ \E resp \in responses :
       \E cancelAt \in CancelPoints(ctxDone, resp) :
       \E items \in {ItemSummaries(resp.tpl, offset)} :
       \E body \in {EbayLoopBody(reader, ctxDone, cancelAt, allParts, offset,
                        [kind |-> resp.kind, itemSummaries |-> items])} :
        /\ searchLog' = Append(searchLog,
                [req |-> EbaySearchRequest(reader, offset), sent |-> ~ctxDone,
                 resp |-> resp, cancelAt |-> cancelAt, err |-> body.err,
                 got |-> SubSeq(IDs(body.allParts), Len(allParts) + 1, Len(body.allParts))])
        /\ imageReqs' = imageReqs \o body.gets
        /\ ctxDone' = (ctxDone \/ cancelAt > 0)
        /\ allParts' = body.allParts
        /\ offset' = body.offset
        /\ IF body.next = "loop"
           THEN pc' = "loop" /\ result' = result
           ELSE pc' = "returned" /\ result' = FetchPartsReturn(body.next, body.allParts, body.err)
    /\ UNCHANGED <<params, now, page, tokenLog>>

\* EbayClient.FetchParts: one pass of the loop
EbayFetchPage ==
    /\ EbayStep(client, MaxRequests, EbayResponses(ctxDone, searchLog = <<>>))
    /\ UNCHANGED <<client, other>>

\* the caller cancels the context while the call is in progress
Cancel ==
    /\ pc \in {"token", "post", "loop"}
    /\ ~ctxDone
    /\ ctxDone' = TRUE
    /\ UNCHANGED <<client, pc, params, now, allParts, page, offset, tokenLog, searchLog,
                   imageReqs, result, other>>

\* the call is over; its locals are gone, the instance stays
Finish ==
    /\ pc \in {"returned", "panicked"}
    /\ pc' = "idle"
    /\ params' = NoParams
    /\ now' = NoClock
    /\ ctxDone' = FALSE
    /\ allParts' = <<>>
    /\ page' = 0
    /\ offset' = 0
    /\ tokenLog' = <<>>
    /\ searchLog' = <<>>
    /\ imageReqs' = <<>>
    /\ result' = NoResult
    /\ UNCHANGED <<client, other>>

Next ==
    \/ StartFetchParts
    \/ KleinanzeigenFetchPage
    \/ SchadeAutosFetch
    \/ EbayGetAccessToken
    \/ EbayFetchPage
    \/ Cancel
    \/ Finish

Spec == Init /\ [][Next]_vars

(***************************************************************************)
(* A Kleinanzeigen call taken as a whole, from its first page request to   *)
(* its return, against a site that answers by a script.  The call may make *)
(* one request more than maxPages if its loop lets it, and is then left in *)
(* its loop.                                                               *)
(***************************************************************************)
InitCeiling ==
    /\ client = NewKleinanzeigenClient(3)
    /\ CallIdle

\* the numbers of full pages a site serves before its last answer
FullPageCounts == {0, 1, 2, maxPages - 1}

\* the scripts of a site: after no full page the last answer is any answer
\* to a first request, after some full pages any answer to a later one
KleinanzeigenScripts ==
    UNION {{[full |-> k, last |-> r] : r \in KleinanzeigenResponses(FALSE, k = 0)} :
                k \in FullPageCounts}

\* the requests before which the caller may cancel the context (0: never)
CancelBefore == {0, 2}

\* KleinanzeigenClient.FetchParts: the loop, from the first pass to the return
KleinanzeigenFetchParts ==
    /\ client.kind = "kleinanzeigen"
    /\ pc = "loop"
    /\ searchLog = <<>>
    /\ \E script \in KleinanzeigenScripts :
       \E cancelBefore \in CancelBefore :
       \E after \in {KleinanzeigenPasses(
                        [c |-> client, limit |-> params.Limit, now |-> now,
                         script |-> script, cancelBefore |-> cancelBefore],
                        1, maxPages + 1, Call)} :
        /\ searchLog' = after.searchLog
        /\ imageReqs' = after.imageReqs
        /\ ctxDone' = after.ctxDone
        /\ allParts' = after.allParts
        /\ page' = after.page
        /\ pc' = after.pc
        /\ result' = after.result
    /\ UNCHANGED <<client, params, now, offset, tokenLog, other>>

NextCeiling ==
    \/ StartFetchParts
    \/ KleinanzeigenFetchParts
    \/ Finish

SpecCeiling == InitCeiling /\ [][NextCeiling]_vars

(***************************************************************************)
(* Two FetchParts calls in progress on one instance.  The call in the      *)
(* variables takes the steps; Switch puts it aside and lets the other one  *)
(* go on, so the steps of the two calls interleave in every order.  The    *)
(* instance is shared, each call has its own context, parameters and       *)
(* locals.  The sites answer with a few kinds of responses only.           *)
(***************************************************************************)
InitTwoCalls ==
    /\ client \in {NewKleinanzeigenClient(3), NewSchadeAutosClient(3),
                   NewEbayClient(5, AppID, ClientSecret, FALSE)}
    /\ CallIdle

FewKleinanzeigenResponses(done) ==
    IF done THEN {Failure("connfail")}
    ELSE {Failure("status"), Page(Template(SmallPage, 1, "good")),
          Page(Template(itemsPerPage, 1, "good"))}

FewSchadeAutosResponses(done) ==
    IF done THEN {Failure("connfail")}
    ELSE {Failure("status"), Page(Template(MaxStock, 1, "good")),
          Page(Template(1, 1, "nodate"))}

FewEbayResponses(done) ==
    IF done THEN {Failure("connfail")}
    ELSE {Failure("status"), Page(EmptyTemplate), Page(Template(SmallPage, 1, "good"))}

\* what a read of the accessToken field can give while another goroutine
\* writes it without synchronisation: the old string, the new one, or, when
\* the two differ, a string header torn between them
TornToken == <<"t", "?">>

RacyReads(old, new) == IF old = new THEN {old} ELSE {old, new, TornToken}

\* a caller calls FetchParts while another call may be in progress
StartFetchPartsOfTwo == StartStep(TRUE)

KleinanzeigenFetchPageOfTwo ==
    KleinanzeigenStep(MaxRequestsEach, FewKleinanzeigenResponses(ctxDone))

SchadeAutosFetchOfTwo == SchadeAutosStep(FewSchadeAutosResponses(ctxDone))

EbayGetAccessTokenOfTwo == EbayTokenStep(TRUE)

EbayFetchPageOfTwo ==
    /\ EbayStep(client, MaxRequestsEach, FewEbayResponses(ctxDone))
    /\ UNCHANGED <<client, other>>

\* EbayClient.FetchParts: a pass of the loop of one call reads accessToken
\* for its request header while GetAccessToken of the other call assigns it
EbayFetchPageDuringTokenWrite ==
    /\ other.pc = "token"
    /\ \E resp \in {r \in FewTokenResponses : r.kind = "ok"} :
       \E seen \in RacyReads(client.accessToken, resp.accessToken) :
        /\ EbayStep([client EXCEPT !.accessToken = seen], MaxRequestsEach,
                    FewEbayResponses(ctxDone))
        /\ client' = GetAccessToken(client, resp).client
        /\ other' = [other EXCEPT
                        !.pc = "loop", !.offset = 0, !.allParts = <<>>,
                        !.tokenLog = Append(@, [req |-> TokenRequest(client), resp |-> resp,
                                                err |-> NoErr])]

\* Switch as it would be if the accumulating list were a field of the
\* instance: the call that goes on finds the list the other one left
SwitchKeepsTheList ==
    /\ other' = Call
    /\ pc' = other.pc
    /\ params' = other.params
    /\ now' = other.now
    /\ ctxDone' = other.ctxDone
    /\ allParts' = allParts
    /\ page' = other.page
    /\ offset' = other.offset
    /\ tokenLog' = other.tokenLog
    /\ searchLog' = other.searchLog
    /\ imageReqs' = other.imageReqs
    /\ result' = other.result
    /\ UNCHANGED client

\* the scheduler lets the other call go on
Switch ==
    /\ other' = Call
    /\ pc' = other.pc
    /\ params' = other.params
    /\ now' = other.now
    /\ ctxDone' = other.ctxDone
    /\ allParts' = other.allParts
    /\ page' = other.page
    /\ offset' = other.offset
    /\ tokenLog' = other.tokenLog
    /\ searchLog' = other.searchLog
    /\ imageReqs' = other.imageReqs
    /\ result' = other.result
    /\ UNCHANGED client

NextTwoCalls ==
    \/ StartFetchPartsOfTwo
    \/ KleinanzeigenFetchPageOfTwo
    \/ SchadeAutosFetchOfTwo
    \/ EbayGetAccessTokenOfTwo
    \/ EbayFetchPageOfTwo
    \/ EbayFetchPageDuringTokenWrite
    \/ Switch
    \/ Finish

SpecTwoCalls == InitTwoCalls /\ [][NextTwoCalls]_vars

(***************************************************************************)
(* The properties.                                                         *)
(***************************************************************************)
Paginating == client.kind \in {"kleinanzeigen", "ebay"}

\* the fixed page size of the paginating client
PageSize == IF client.kind = "ebay" THEN EbayPageSize ELSE itemsPerPage

\* search request i was answered 200 with a payload that decodes
Answered(i) == searchLog[i].resp.kind = "ok"

FullGoodPage(i) == Answered(i) /\ searchLog[i].resp.tpl = Template(PageSize, 1, "good")

ShortGoodPage(i) ==
    /\ Answered(i)
    /\ searchLog[i].resp.tpl.kind = "good"
    /\ searchLog[i].resp.tpl.n < PageSize

\* C1: a top-level request that ends in a connection failure, a non-200
\* status or an undecodable payload is the last request of its call, and the
\* call returns a nil list with a non-nil error, whatever it had accumulated.
C1_FailedRequestFailsTheCall ==
    \A i \in 1..Len(searchLog) :
        searchLog[i].resp.kind \in FailureKinds =>
            /\ i = Len(searchLog)
            /\ pc = "returned"
            /\ result.nilList
            /\ result.list = <<>>
            /\ result.err # NoErr

\* C1: the third page of a Kleinanzeigen call is answered with a non-200
\* status after two full pages were accumulated.
C1_Witness ==
    /\ client.kind = "kleinanzeigen"
    /\ pc = "returned"
    /\ Len(searchLog) = 3
    /\ searchLog[3].resp.kind = "status"
    /\ Len(allParts) = 2 * itemsPerPage
    /\ result.nilList

\* C2: a Kleinanzeigen call that succeeds with Limit > 0 returns at most
\* max(1, Limit) parts.
C2_LimitBoundsTheResult ==
    (client.kind = "kleinanzeigen" /\ pc = "returned" /\ result.err = NoErr
        /\ params.Limit > 0)
        => Len(result.list) <= Max({1, params.Limit})

\* C3: a paginating client (Kleinanzeigen without a limit, eBay) goes on after
\* each of three full pages, and when the fourth page has k < P well-formed
\* items it has issued exactly 4 page requests and returns 3P + k items with
\* a nil error.
C3_ThreeFullPagesAndAShortOne ==
    (Paginating /\ (client.kind = "kleinanzeigen" => params.Limit = 0)) =>
        /\ \A n \in 1..3 :
            (Len(searchLog) = n /\ \A i \in 1..n : FullGoodPage(i)) => pc = "loop"
        /\ (Len(searchLog) >= 4 /\ (\A i \in 1..3 : FullGoodPage(i)) /\ ShortGoodPage(4)) =>
            /\ Len(searchLog) = 4
            /\ pc = "returned"
            /\ ~result.nilList
            /\ Len(result.list) = 3 * PageSize + searchLog[4].resp.tpl.n
            /\ result.err = NoErr

\* C3: an eBay call answered 200, 200, 200 and SmallPage items has returned.
C3_Witness ==
    /\ client.kind = "ebay"
    /\ pc = "returned"
    /\ Len(searchLog) = 4
    /\ \A i \in 1..3 : FullGoodPage(i)
    /\ searchLog[4].resp.tpl = Template(SmallPage, 1, "good")
    /\ Len(result.list) = 3 * EbayPageSize + SmallPage

\* C4: when the first page request of a paginating client succeeds and yields
\* no item, the call issues no further page request and returns an empty list
\* with a nil error.
C4_EmptyFirstPage ==
    (Paginating /\ Len(searchLog) >= 1 /\ Answered(1) /\ searchLog[1].resp.tpl.n = 0) =>
        /\ Len(searchLog) = 1
        /\ pc = "returned"
        /\ Len(result.list) = 0
        /\ result.err = NoErr

\* C4: a Kleinanzeigen call whose first page holds no article has returned.
C4_Witness ==
    /\ client.kind = "kleinanzeigen"
    /\ pc = "returned"
    /\ Len(searchLog) = 1
    /\ searchLog[1].sent
    /\ Answered(1)
    /\ searchLog[1].resp.tpl.n = 0
    /\ ~result.nilList

\* C5: a call of a paginating client whose context is cancelled after its
\* first page request was sent returns a nil list and a non-nil error.
C5_CancelledCallFails ==
    (Paginating /\ pc = "returned" /\ ctxDone /\ Len(searchLog) >= 1 /\ searchLog[1].sent)
        => (result.nilList /\ result.err # NoErr)

\* C6: when the token exchange of an eBay call fails, no search request is
\* sent and the call returns a nil list and a non-nil error.
C6_FailedTokenExchangeFailsTheCall ==
    (client.kind = "ebay" /\ Len(tokenLog) >= 1 /\ tokenLog[1].err # NoErr) =>
        /\ \A i \in 1..Len(searchLog) : ~searchLog[i].sent
        /\ pc = "returned" => (result.nilList /\ result.err # NoErr)

\* every part of a returned list carries the site id of the client, and the
\* constructors store the id they are given
SiteIDOfReturnedParts ==
    /\ (pc = "returned" /\ ~result.nilList) =>
            \A i \in 1..Len(result.list) : result.list[i].SiteID = GetSiteID(client)
    /\ \A id \in SiteIDs :
        /\ GetSiteID(NewKleinanzeigenClient(id)) = id
        /\ GetSiteID(NewSchadeAutosClient(id)) = id
        /\ GetSiteID(NewEbayClient(id, AppID, ClientSecret, FALSE)) = id

\* C7: every Part of a list a call returns has the SiteID GetSiteID()
\* answers, which is the id given to the constructor, and no step changes it.
C7_PartsCarryTheSiteID ==
    /\ []SiteIDOfReturnedParts
    /\ [][client'.siteID = client.siteID]_vars

\* C7: a SchadeAutos call has returned a list of MaxStock parts.
C7_Witness ==
    /\ client.kind = "schadeautos"
    /\ pc = "returned"
    /\ ~result.nilList
    /\ Len(result.list) = MaxStock
    /\ result.list[1].SiteID \in SiteIDs

\* C8: a call that ends returns either a non-nil list with a nil error or a
\* nil list with a non-nil error, and never ends by a panic.
C8_OneOfTwoOutcomes ==
    /\ pc # "panicked"
    /\ pc = "returned" =>
        \/ ~result.nilList /\ result.err = NoErr
        \/ result.nilList /\ result.list = <<>> /\ result.err # NoErr

\* C9: when an entry of the stockParts mapping has an enterDate that is empty
\* or matches no layout, the SchadeAutos call delivers no list.
C9_UnparseableEnterDate ==
    (client.kind = "schadeautos" /\ Len(searchLog) = 1 /\ Answered(1)
        /\ searchLog[1].resp.tpl.n > 0 /\ searchLog[1].resp.tpl.kind \in BadDateKinds)
        => (result.nilList /\ result.list = <<>>)

\* C9: the mapping held two entries, the one with the date that parses was
\* converted first (its image was requested), the other one has a date that
\* matches no layout.
C9_Witness ==
    /\ client.kind = "schadeautos"
    /\ Len(searchLog) = 1
    /\ searchLog[1].resp = Page(Template(2, 2, "baddate"))
    /\ imageReqs # <<>>
    /\ pc = "panicked"

\* the ids of the well-formed articles of a page, in page order
ListedIDs(tpl, pageNo) ==
    LET id(j) == GoodArticle(pageNo, j).adid
        all == Map(tpl.n, id)
    IN  IF tpl.n > 0 /\ tpl.kind \in MalformedKinds
        THEN SubSeq(all, 1, tpl.pos - 1) \o SubSeq(all, tpl.pos + 1, tpl.n)
        ELSE all

\* the ids extracted from the first n pages of the call
RECURSIVE GotUpTo(_)
GotUpTo(n) == IF n = 0 THEN <<>> ELSE GotUpTo(n - 1) \o searchLog[n].got

\* C10: fetchSinglePage answers a page with a malformed article without an
\* error and with the other articles in page order; FetchParts fails only on
\* a failed request and returns the extracted articles in page order.
C10_MalformedArticleIsSkipped ==
    client.kind = "kleinanzeigen" =>
        /\ \A i \in 1..Len(searchLog) :
            Answered(i) =>
                /\ searchLog[i].err = NoErr
                /\ searchLog[i].got = ListedIDs(searchLog[i].resp.tpl, i)
        /\ (pc = "returned" /\ result.err # NoErr) => ~Answered(Len(searchLog))
        /\ (pc = "returned" /\ ~result.nilList) =>
            /\ IDs(result.list) = SubSeq(GotUpTo(Len(searchLog)), 1, Len(result.list))
            /\ params.Limit = 0 => Len(result.list) = Len(GotUpTo(Len(searchLog)))

\* C10: after a full first page, the first article of the second page lacks
\* its ad id; the call returned the other 49 articles.
C10_Witness ==
    /\ client.kind = "kleinanzeigen"
    /\ pc = "returned"
    /\ params.Limit = 0
    /\ Len(searchLog) = 2
    /\ FullGoodPage(1)
    /\ searchLog[2].resp = Page(Template(itemsPerPage, 1, "noid"))
    /\ result.err = NoErr
    /\ Len(result.list) = 2 * itemsPerPage - 1

\* the Part a client makes of entry j of a first page (of the stockParts
\* mapping) when the entry is plain and its image is fetched
PlainPart(j) ==
    CASE client.kind = "kleinanzeigen" ->
            ExtractPart(client, FALSE, now, GoodArticle(1, j)).part
      [] client.kind = "schadeautos" ->
            SchadeAutosPart(client, StockID(j), GoodStockPart(j),
                ParseEnterDate(GoodStockPart(j).enterDate),
                DoImageGet(FALSE, GoodStockPart(j).picture))
      [] client.kind = "ebay" ->
            EbayPart(client, GoodItem(0, j),
                DoImageGet(FALSE, GoodItem(0, j).thumbnailImages[1]))

\* the kinds of entry whose image cannot be fetched: a 404, a connection
\* failure, and a URL the client requests without a scheme
ImageFailureKinds ==
    CASE client.kind = "kleinanzeigen" -> {"img404", "imgconn", "imghost"}
      [] client.kind = "schadeautos" -> {"img404", "imgconn"}
      [] client.kind = "ebay" -> {"img404", "imgconn", "imgrel"}

\* C11: when the image fetch of one entry fails, the call returns every entry
\* with a nil error; the entry has an empty ImageBase64 and its other fields
\* as with a fetched image, the other entries are as if nothing had failed.
C11_ImageFailureIsNotFatal ==
    (Len(searchLog) = 1 /\ Answered(1) /\ searchLog[1].cancelAt = 0
        /\ searchLog[1].resp.tpl.n > 0
        /\ searchLog[1].resp.tpl.kind \in ImageFailureKinds) =>
        /\ pc = "returned"
        /\ ~result.nilList
        /\ result.err = NoErr
        /\ Len(result.list) = searchLog[1].resp.tpl.n
        /\ \A j \in 1..searchLog[1].resp.tpl.n :
            \E i \in 1..Len(result.list) :
                result.list[i] =
                    IF j = searchLog[1].resp.tpl.pos
                    THEN [PlainPart(j) EXCEPT !.ImageBase64 = <<>>]
                    ELSE PlainPart(j)

\* C11: the image of the first of SmallPage eBay items is answered 404; the
\* call returned both items, the second one with its image.
C11_Witness ==
    /\ client.kind = "ebay"
    /\ pc = "returned"
    /\ Len(searchLog) = 1
    /\ searchLog[1].resp = Page(Template(SmallPage, 1, "img404"))
    /\ searchLog[1].cancelAt = 0
    /\ Len(result.list) = SmallPage
    /\ result.list[1].ImageBase64 = <<>>
    /\ result.list[2].ImageBase64 # <<>>

\* C12: a SchadeAutos call makes one search POST and no second one, whatever
\* Limit and Offset are, however many entries the response holds and whether
\* or not it is flagged as limited.
C12_ExactlyOnePost ==
    client.kind = "schadeautos" =>
        /\ Len(searchLog) <= 1
        /\ pc = "post" => searchLog = <<>>
        /\ pc \in {"returned", "panicked"} =>
            (Len(searchLog) = 1 /\ searchLog[1].req.method = "POST")

\* C12: a call with Limit = 1 and Offset = 0 was answered MaxStock entries,
\* flagged as limited, and has returned.
C12_Witness ==
    /\ client.kind = "schadeautos"
    /\ pc = "returned"
    /\ params.Limit = 1
    /\ Len(searchLog) = 1
    /\ searchLog[1].limited
    /\ searchLog[1].resp.tpl.n = MaxStock
    /\ ~result.nilList

\* C13: a SchadeAutos call that succeeds with Limit > 0 returns at most Limit
\* parts.
C13_LimitBoundsTheFormSearchResult ==
    (client.kind = "schadeautos" /\ pc = "returned" /\ result.err = NoErr
        /\ params.Limit > 0)
        => Len(result.list) <= params.Limit

\* the ids of the items of page i that the client makes parts of, in the
\* order in which the source delivered them
DeliveredIDs(i) ==
    IF client.kind = "ebay"
    THEN LET id(j) == GoodItem(EbayPageSize * (i - 1), j).itemId
         IN  Map(searchLog[i].resp.tpl.n, id)
    ELSE ListedIDs(searchLog[i].resp.tpl, i)

\* the ids delivered by the first n pages of the call, in request order
RECURSIVE DeliveredUpTo(_)
DeliveredUpTo(n) ==
    IF n = 0 THEN <<>>
    ELSE DeliveredUpTo(n - 1) \o (IF Answered(n) THEN DeliveredIDs(n) ELSE <<>>)

\* C14: the list a paginating client returns is the concatenation of the
\* items of the requested pages, in request order and within a page in the
\* order delivered; the only shorter list is the Kleinanzeigen one cut to its
\* first Limit items.
C14_ResultIsTheConcatenationOfThePages ==
    (Paginating /\ pc = "returned" /\ ~result.nilList) =>
        /\ IDs(result.list) = SubSeq(DeliveredUpTo(Len(searchLog)), 1, Len(result.list))
        /\ \/ Len(result.list) = Len(DeliveredUpTo(Len(searchLog)))
           \/ /\ client.kind = "kleinanzeigen"
              /\ params.Limit > 0
              /\ Len(result.list) = params.Limit

\* C14: a Kleinanzeigen call with Limit = 30 fetched two full pages and
\* returned the first 30 of the 50 articles.
C14_Witness ==
    /\ client.kind = "kleinanzeigen"
    /\ pc = "returned"
    /\ params.Limit = 30
    /\ Len(searchLog) = 2
    /\ FullGoodPage(1)
    /\ FullGoodPage(2)
    /\ Len(result.list) = 30
    /\ result.list[30].ID = GoodArticle(2, 5).adid

\* the image URL of a plain entry, which is absolute
PlainImageURL == <<"h", "t", "t", "p", "s", ":", "/", "/", "i", "/", "x">>

\* the absolute URL to request for the image of an entry of the kind named
ResolvedImageURL(kind) ==
    CASE kind = "imgrel"  -> HttpsPrefix \o <<"/", "/", "i", "/", "x">>
      [] kind = "imghost" -> client.baseURL \o <<"/", "p", "/", "x">>
      [] kind = "img404"  -> <<"h", "t", "t", "p", "s", ":", "/", "/", "i", "/", "y">>
      [] OTHER            -> PlainImageURL

\* C15: the image inliner of every client requests an absolute URL, "https:"
\* + input for a protocol-relative input, base URL + input for a
\* host-relative one and the input itself when it is absolute, with one GET
\* per call.
C15_ImageURLIsResolved ==
    (pc = "returned" /\ Len(searchLog) = 1 /\ Answered(1) /\ searchLog[1].cancelAt = 0
        /\ searchLog[1].resp.tpl.n > 0
        /\ searchLog[1].resp.tpl.kind \in {"good", "imgrel", "imghost", "img404"}) =>
        /\ Len(imageReqs) = searchLog[1].resp.tpl.n
        /\ \E i \in 1..Len(imageReqs) :
            /\ imageReqs[i] = ResolvedImageURL(searchLog[1].resp.tpl.kind)
            /\ \A j \in 1..Len(imageReqs) : j # i => imageReqs[j] = PlainImageURL

\* the calendar day before the day of now, for the clocks of Nows
DayBeforeNow ==
    IF now.year = 2024 THEN [year |-> 2024, month |-> 2, day |-> 29]
    ELSE [year |-> 2022, month |-> 12, day |-> 31]

\* the creation date to expect for the date text of an article of the kind
\* named: "Heute, 14:05", "Gestern, 9:30", "01.02.2023", "1.2.2023" and
\* "01.02.2023, 14:05"
ExpectedCreationDate(kind) ==
    CASE kind = "heute" ->
            [year |-> now.year, month |-> now.month, day |-> now.day,
             hour |-> 14, min |-> 5, sec |-> 0, loc |-> now.loc]
      [] kind = "gestern" ->
            [year |-> DayBeforeNow.year, month |-> DayBeforeNow.month,
             day |-> DayBeforeNow.day, hour |-> 9, min |-> 30, sec |-> 0,
             loc |-> now.loc]
      [] kind = "datetime" ->
            [year |-> 2023, month |-> 2, day |-> 1, hour |-> 14, min |-> 5, sec |-> 0,
             loc |-> "UTC"]
      [] OTHER ->
            [year |-> 2023, month |-> 2, day |-> 1, hour |-> 0, min |-> 0, sec |-> 0,
             loc |-> "UTC"]

\* C16: "Heute, HH:MM" gives the day of now with time HH:MM:00 in the location
\* of now, "Gestern, HH:MM" the day before, and a text with "." is read
\* day-first by the first of the four layouts that parses it.
C16_CreationDateIsExtracted ==
    (client.kind = "kleinanzeigen" /\ pc = "returned" /\ Len(searchLog) = 1 /\ Answered(1)
        /\ searchLog[1].resp.tpl.n = SmallPage
        /\ searchLog[1].resp.tpl.kind
                \in {"good", "heute", "gestern", "shortdate", "datetime"}) =>
        /\ Len(result.list) = SmallPage
        /\ result.list[searchLog[1].resp.tpl.pos].CreationDate
                = ExpectedCreationDate(searchLog[1].resp.tpl.kind)

\* C16: on 1 March 2024 the first article of the page is dated "Gestern,
\* 9:30"; its part is dated 29 February 2024, 9:30.
C16_Witness ==
    /\ client.kind = "kleinanzeigen"
    /\ pc = "returned"
    /\ now.year = 2024
    /\ Len(searchLog) = 1
    /\ searchLog[1].resp = Page(Template(SmallPage, 1, "gestern"))
    /\ Len(result.list) = SmallPage
    /\ result.list[1].CreationDate.month = 2
    /\ result.list[1].CreationDate.day = 29
    /\ result.list[1].CreationDate.loc = "Europe/Berlin"

\* the kinds of article whose date text is missing or does not parse: no
\* text, "Heute, 25:00", "Gestern, 9:60", "31.02.2023", "vor 3 Tagen"
UndatedKinds == {"nodate", "heutebad", "gesternbad", "baddate", "worddate"}

\* C17: an article whose date text is missing or cannot be parsed is returned
\* like a plain one, with the zero time as its CreationDate.
C17_UnparsedDateIsTheZeroTime ==
    (client.kind = "kleinanzeigen" /\ pc = "returned" /\ Len(searchLog) = 1 /\ Answered(1)
        /\ searchLog[1].resp.tpl.n = SmallPage
        /\ searchLog[1].cancelAt = 0
        /\ searchLog[1].resp.tpl.kind \in UndatedKinds) =>
        /\ result.err = NoErr
        /\ Len(result.list) = SmallPage
        /\ result.list[searchLog[1].resp.tpl.pos]
                = [PlainPart(searchLog[1].resp.tpl.pos) EXCEPT !.CreationDate = ZeroTime]

\* C17: the last article of the page is dated "Gestern, 9:60"; its part is
\* returned with the zero time.
C17_Witness ==
    /\ client.kind = "kleinanzeigen"
    /\ pc = "returned"
    /\ Len(searchLog) = 1
    /\ searchLog[1].resp = Page(Template(SmallPage, SmallPage, "gesternbad"))
    /\ searchLog[1].cancelAt = 0
    /\ Len(result.list) = SmallPage
    /\ result.list[SmallPage].ID = GoodArticle(1, SmallPage).adid
    /\ result.list[SmallPage].CreationDate = ZeroTime

\* the number of parts the first n page requests of the call extracted
RECURSIVE AccumulatedCount(_)
AccumulatedCount(n) ==
    IF n = 0 THEN 0 ELSE AccumulatedCount(n - 1) + Len(searchLog[n].got)

\* page i was fetched without error and the limit and the ceiling leave room
\* for another page
RoomForAnotherPage(i) ==
    /\ searchLog[i].err = NoErr
    /\ params.Limit = 0 \/ AccumulatedCount(i) < params.Limit
    /\ i < maxPages

\* the page requests of a Kleinanzeigen call are numbered 1, 2, 3, ..., each
\* request but the last was followed by another because goesOn held of it,
\* and the call is still in its loop after the last one exactly if goesOn
\* holds of it
NextPageExactlyIf(goesOn(_)) ==
    (client.kind = "kleinanzeigen" /\ pc \in {"loop", "returned"}) =>
        /\ pc = "loop" => page = Len(searchLog) + 1
        /\ \A i \in 1..Len(searchLog) :
            /\ searchLog[i].req = BuildSearchURLWithPage(client, i)
            /\ searchLog[i].req.pageNum = (IF i = 1 THEN <<>> ELSE Sprintd(i))
            /\ i < Len(searchLog) => goesOn(i)
            /\ i = Len(searchLog) => (pc = "loop" <=> goesOn(i))

\* C18: page n+1 of a Kleinanzeigen call is requested exactly if page n was
\* fetched without error, yielded exactly 25 parts, the accumulated count is
\* below Limit (or Limit is 0) and n < 100.
C18_NextPageExactlyAfterAPageOf25 ==
    LET goesOn(i) == RoomForAnotherPage(i) /\ Len(searchLog[i].got) = itemsPerPage
    IN  NextPageExactlyIf(goesOn)

\* C18, amended: page n+1 of a Kleinanzeigen call is requested exactly if
\* page n was fetched without error, yielded at least 25 parts, the
\* accumulated count is below Limit (or Limit is 0) and n < 100.
C18_NextPageExactlyAfterAPageOfAtLeast25 ==
    LET goesOn(i) == RoomForAnotherPage(i) /\ Len(searchLog[i].got) >= itemsPerPage
    IN  NextPageExactlyIf(goesOn)

\* C18: with Limit = 30 the first page yields 26 parts, page 2 is requested
\* and yields 26 more, and the call returns without a third request.
C18_Witness ==
    /\ client.kind = "kleinanzeigen"
    /\ pc = "returned"
    /\ params.Limit = 30
    /\ Len(searchLog) = 2
    /\ Len(searchLog[1].got) = itemsPerPage + 1
    /\ searchLog[2].req.pageNum = <<"2">>
    /\ Len(searchLog[2].got) = itemsPerPage + 1
    /\ Len(result.list) = 30

\* a call made 100 page requests, each answered with a full page of plain
\* articles
HundredFullPages ==
    /\ Len(searchLog) = maxPages
    /\ \A i \in 1..maxPages : Len(searchLog[i].got) = itemsPerPage /\ searchLog[i].err = NoErr

\* a Kleinanzeigen call issues at most 100 page requests, and after 100 full
\* pages without a limit it has returned the 2500 parts with a nil error
WithinTheCeiling ==
    client.kind = "kleinanzeigen" =>
        /\ Len(searchLog) <= maxPages
        /\ Len(searchLog) = maxPages => pc = "returned"
        /\ (HundredFullPages /\ params.Limit = 0) =>
            /\ pc = "returned"
            /\ result.err = NoErr
            /\ ~result.nilList
            /\ Len(result.list) = maxPages * itemsPerPage
            /\ IDs(result.list) = GotUpTo(maxPages)

\* C19: a Kleinanzeigen call that made a page request has returned, after at
\* most 100 of them; when every page is a full page of 25 and no limit is set
\* it stops after page 100 and returns the 2500 parts with a nil error.
C19_TerminatesWithinTheCeiling ==
    /\ WithinTheCeiling
    /\ (client.kind = "kleinanzeigen" /\ searchLog # <<>>) => pc = "returned"

\* C19: a call without a limit was answered 100 full pages and returned 2500
\* parts.
C19_Witness ==
    /\ client.kind = "kleinanzeigen"
    /\ pc = "returned"
    /\ params.Limit = 0
    /\ HundredFullPages
    /\ searchLog[maxPages].req.pageNum = <<"1", "0", "0">>
    /\ Len(result.list) = 2500
    /\ result.err = NoErr

\* C20: the k-th search request of an eBay call carries offset 200*(k-1),
\* which is the number of parts accumulated so far, and limit 200; a further
\* request follows only a page of exactly 200 items and the call returns at
\* the first page of fewer; Limit and Offset of the parameters change
\* neither the requests nor the number of parts returned.
C20_OffsetsFollowTheAccumulatedParts ==
    client.kind = "ebay" =>
        /\ \A k \in 1..Len(searchLog) :
            /\ searchLog[k].req.offset = Sprintd(EbayPageSize * (k - 1))
            /\ searchLog[k].req.offset = Sprintd(AccumulatedCount(k - 1))
            /\ searchLog[k].req.limit = <<"2", "0", "0">>
            /\ k < Len(searchLog) =>
                (searchLog[k].err = NoErr /\ Len(searchLog[k].got) = EbayPageSize)
            /\ (k = Len(searchLog) /\ searchLog[k].err = NoErr) =>
                /\ Len(searchLog[k].got) = EbayPageSize => pc = "loop"
                /\ Len(searchLog[k].got) < EbayPageSize => pc = "returned"
        /\ pc = "loop" => (offset = Len(allParts) /\ offset = EbayPageSize * Len(searchLog))
        /\ (pc = "returned" /\ result.err = NoErr) =>
                Len(result.list) = AccumulatedCount(Len(searchLog))

\* C20: an eBay call with Limit = 30 and Offset = 10 requested offsets 0 and
\* 200 and returned 200 + SmallPage parts.
C20_Witness ==
    /\ client.kind = "ebay"
    /\ pc = "returned"
    /\ params.Limit = 30
    /\ params.Offset = 10
    /\ Len(searchLog) = 2
    /\ searchLog[1].req.offset = <<"0">>
    /\ searchLog[2].req.offset = <<"2", "0", "0">>
    /\ result.err = NoErr
    /\ Len(result.list) = EbayPageSize + SmallPage
    /\ Len(result.list) > params.Limit

\* page i of the call held itemsPerPage article elements, one of them
\* malformed
FullPageWithMalformedArticle(i) ==
    /\ Answered(i)
    /\ searchLog[i].resp.tpl.n = itemsPerPage
    /\ searchLog[i].resp.tpl.kind \in MalformedKinds

\* C24: a Kleinanzeigen page of 25 article elements of which one is skipped as
\* malformed is the last page of the call: no further page is requested and
\* the call returns the parts extracted so far with a nil error.
C24_SkippedArticleEndsTheCall ==
    client.kind = "kleinanzeigen" =>
        \A i \in 1..Len(searchLog) :
            FullPageWithMalformedArticle(i) =>
                /\ Len(searchLog[i].got) = itemsPerPage - 1
                /\ i = Len(searchLog)
                /\ pc = "returned"
                /\ result.err = NoErr
                /\ ~result.nilList
                /\ IDs(result.list) = GotUpTo(i)

\* C24: the last of the 25 articles of the first page has no title; the call
\* returned the other 24 after that one request.
C24_Witness ==
    /\ client.kind = "kleinanzeigen"
    /\ pc = "returned"
    /\ params.Limit = 0
    /\ Len(searchLog) = 1
    /\ searchLog[1].resp = Page(Template(itemsPerPage, itemsPerPage, "notitle"))
    /\ result.err = NoErr
    /\ Len(result.list) = itemsPerPage - 1

\* this step is a token exchange, and it was answered with status 200 and a
\* body that parses
SuccessfulExchangeStep ==
    /\ Len(tokenLog') = Len(tokenLog) + 1
    /\ tokenLog'[Len(tokenLog')].resp.kind = "ok"
    /\ tokenLog'[Len(tokenLog')].err = NoErr
    /\ client'.accessToken = tokenLog'[Len(tokenLog')].resp.accessToken

\* a step changes no field of the instance but accessToken, and that one only
\* as a successful token exchange
TokenChangesOnlyBySuccess ==
    client.kind = "ebay" =>
        /\ client' = [client EXCEPT !.accessToken = client'.accessToken]
        /\ client'.accessToken # client.accessToken => SuccessfulExchangeStep
        /\ (Len(tokenLog') = Len(tokenLog) + 1 /\ tokenLog'[Len(tokenLog')].err # NoErr) =>
                /\ tokenLog'[Len(tokenLog')].resp.kind # "ok"
                /\ client' = client

\* an eBay call past its start made exactly one token exchange, before any
\* search request, and its search requests carry the token of the instance:
\* the one of this exchange if it succeeded
OneExchangePerCall ==
    client.kind = "ebay" =>
        /\ pc = "token" => (tokenLog = <<>> /\ searchLog = <<>>)
        /\ pc \in {"loop", "returned"} =>
            /\ Len(tokenLog) = 1
            /\ tokenLog[1].req = TokenRequest(client)
            /\ tokenLog[1].err = NoErr => client.accessToken = tokenLog[1].resp.accessToken
            /\ \A i \in 1..Len(searchLog) :
                searchLog[i].req.auth = <<"B", "e", "a", "r", "e", "r", " ">> \o client.accessToken

\* C25: accessToken is empty on a fresh instance and changes only by a token
\* exchange answered 200 with a body that parses; a failed exchange leaves it
\* as it was; every call makes one exchange at its start, and its search
\* requests carry the token this leaves in the instance.
C25_TokenChangesOnlyBySuccessfulExchange ==
    /\ client.kind = "ebay" => client.accessToken = <<>>
    /\ []OneExchangePerCall
    /\ [][TokenChangesOnlyBySuccess]_vars

\* C25: the exchange of this call failed and its search request was sent with
\* the token an earlier call left in the instance.
C25_Witness ==
    /\ client.kind = "ebay"
    /\ Len(tokenLog) = 1
    /\ tokenLog[1].resp.kind = "status"
    /\ Len(searchLog) = 1
    /\ searchLog[1].sent
    /\ client.accessToken = <<"t", "2">>
    /\ searchLog[1].req.auth = <<"B", "e", "a", "r", "e", "r", " ", "t", "2">>

\* every search request of the call so far was answered without error with a
\* page of 200 items
OnlyFullPages ==
    /\ searchLog # <<>>
    /\ \A i \in 1..Len(searchLog) :
        searchLog[i].err = NoErr /\ Len(searchLog[i].got) = EbayPageSize

\* C23: an eBay call returns only after a search request that failed (as every
\* request of a cancelled context does) or a page of fewer than 200 items;
\* as long as every request is answered with 200 items the call has not
\* returned and is about to request the next offset, however many requests it
\* has made.
C23_NoPageCeiling ==
    client.kind = "ebay" =>
        /\ pc = "returned" =>
            /\ searchLog # <<>>
            /\ \/ searchLog[Len(searchLog)].err # NoErr
               \/ Len(searchLog[Len(searchLog)].got) < EbayPageSize
        /\ OnlyFullPages =>
            /\ pc = "loop"
            /\ result = NoResult
            /\ offset = EbayPageSize * Len(searchLog)
            /\ Len(allParts) = EbayPageSize * Len(searchLog)

\* C23: every one of MaxRequests search requests was answered with 200 items,
\* the context is not cancelled, and the call is still in its loop.
C23_Witness ==
    /\ client.kind = "ebay"
    /\ ~ctxDone
    /\ Len(searchLog) = MaxRequests
    /\ OnlyFullPages
    /\ pc = "loop"
    /\ offset = EbayPageSize * MaxRequests

BearerOf(token) == <<"B", "e", "a", "r", "e", "r", " ">> \o token

\* a step of the call that takes the steps, with the other call of the same
\* eBay instance anywhere in its run: a token exchange of either call that
\* succeeds assigns the field of the instance, and a search request carries
\* what the field holds then, or what a read can give while the field is
\* being assigned
UnlockedTokenStep ==
    (client.kind = "ebay" /\ ~Switch) =>
        /\ (Len(tokenLog') = Len(tokenLog) + 1 /\ tokenLog'[Len(tokenLog')].err = NoErr) =>
                client'.accessToken = tokenLog'[Len(tokenLog')].resp.accessToken
        /\ other'.tokenLog # other.tokenLog =>
                client'.accessToken = other'.tokenLog[Len(other'.tokenLog)].resp.accessToken
        /\ Len(searchLog') = Len(searchLog) + 1 =>
                IF client' = client
                THEN searchLog'[Len(searchLog')].req.auth = BearerOf(client.accessToken)
                ELSE searchLog'[Len(searchLog')].req.auth
                        \in {BearerOf(t) : t \in RacyReads(client.accessToken, client'.accessToken)}

\* C21: two calls on one eBay instance both assign accessToken, whatever the
\* other one is doing, and each search request carries the value the shared
\* field holds when the request is built, whichever call obtained it.
C21_CallsShareTheTokenField == [][UnlockedTokenStep]_vars

\* C21: this call obtained token t1, the other call then obtained t2, and
\* the search request of this call was sent with t2.
C21_Witness ==
    /\ client.kind = "ebay"
    /\ Len(tokenLog) = 1
    /\ tokenLog[1].err = NoErr
    /\ tokenLog[1].resp.accessToken = <<"t", "1">>
    /\ Len(other.tokenLog) = 1
    /\ other.tokenLog[1].resp.accessToken = <<"t", "2">>
    /\ Len(searchLog) = 1
    /\ searchLog[1].sent
    /\ searchLog[1].req.auth = BearerOf(<<"t", "2">>)

\* a call on the scraped adapter right after it was made
KleinanzeigenFresh(call) ==
    [NoCall EXCEPT !.pc = "loop", !.page = 1, !.params = call.params, !.now = call.now]

\* the call as it would be after its first n page requests, had it run alone
\* on the instance against the answers and the cancellations of its own log
RECURSIVE KleinanzeigenAlone(_, _)
KleinanzeigenAlone(call, n) ==
    IF n = 0 THEN KleinanzeigenFresh(call)
    ELSE
        LET pass(before) ==
                IF before.pc # "loop" THEN before
                ELSE KleinanzeigenPass(client, call.params.Limit, call.now, before,
                        call.searchLog[n].resp, call.searchLog[n].cancelAt) @@ before
        IN  Let(KleinanzeigenAlone(call, n - 1), pass)

\* the states a call on the form-search adapter can be in after running
\* alone on the instance against the answer and the cancellation of its own
\* log, one for each order in which the stock map can be iterated
SchadeAutosAlone(call) ==
    IF call.searchLog = <<>> THEN {[NoCall EXCEPT !.pc = "post", !.params = call.params]}
    ELSE
        LET entry == call.searchLog[1]
            alone(order) ==
                LET done(r) ==
                        [NoCall EXCEPT
                            !.pc = SchadeAutosAfterPost(r.next, entry.limited),
                            !.params = call.params,
                            !.ctxDone = (entry.cancelAt > 0),
                            !.allParts = r.parts,
                            !.searchLog =
                                <<[req |-> [method |-> "POST", base |-> client.baseURL,
                                            form |-> SchadeAutosFormData(call.params)],
                                   sent |-> TRUE, resp |-> entry.resp,
                                   limited |-> entry.limited, cancelAt |-> entry.cancelAt,
                                   err |-> r.err, got |-> IDs(r.parts)]>>,
                            !.imageReqs = r.gets,
                            !.result = IF r.next = "panic" THEN NoResult
                                       ELSE FetchPartsReturn(r.next, r.parts, r.err)]
                IN  Let(SchadeAutosFetchParts(client, FALSE, entry.cancelAt,
                            [kind |-> entry.resp.kind,
                             stockParts |-> StockParts(entry.resp.tpl)], order), done)
        IN  {alone([i \in 1..entry.resp.tpl.n |-> StockID(o[i])]) :
                o \in IterationOrders(entry.resp.tpl.n)}

\* a call in progress or returned is where it would be had it run alone
AsIfAlone(call) ==
    call.pc \in {"loop", "post", "returned", "panicked"} =>
        CASE client.kind = "kleinanzeigen" ->
                call = KleinanzeigenAlone(call, Len(call.searchLog))
          [] client.kind = "schadeautos" -> call \in SchadeAutosAlone(call)
          [] OTHER -> TRUE

\* a step of a call on the scraped or the form-search adapter assigns no
\* field of the instance
InstanceUntouched ==
    client.kind \in {"kleinanzeigen", "schadeautos"} => client' = client

\* a step of a call on the scraped or the form-search adapter leaves the
\* other call as it is; when the scheduler lets the other call go on, each of
\* the two keeps its own position and locals
OtherCallUntouched ==
    client.kind \in {"kleinanzeigen", "schadeautos"} =>
        \/ other' = other
        \/ other' = Call /\ Call' = other

\* C22: FetchParts of the scraped and of the form-search adapter assigns no
\* field of the instance and keeps its list in the call, so that of two calls
\* interleaved on one instance each is, at every step and when it returns,
\* where it would be had it run alone against the same answers: the call
\* taking steps is, and the call waiting is as it was when it took its last.
C22_InterleavedCallsRunAsIfAlone ==
    /\ []AsIfAlone(Call)
    /\ [][InstanceUntouched /\ OtherCallUntouched]_vars

\* C22: of two calls in progress on one instance of the scraped adapter, this
\* one has returned the two pages it was answered while the other one holds
\* the full page it was answered and is still in its loop.
C22_Witness ==
    /\ client.kind = "kleinanzeigen"
    /\ pc = "returned"
    /\ Len(searchLog) = 2
    /\ result.err = NoErr
    /\ Len(result.list) = itemsPerPage + SmallPage
    /\ other.pc = "loop"
    /\ Len(other.searchLog) = 1
    /\ Len(other.allParts) = itemsPerPage

====
